---- MODULE Spec2Model ----
(***************************************************************************)
(* Cartesian domain decomposition and ghost-region exchange of psydac       *)
(* (src/psydac/ddm/cart.py): CartDecomposition, CartDataExchanger,          *)
(* MultiCartDecomposition, InterfacesCartDecomposition,                     *)
(* InterfaceCartDecomposition and InterfaceCartDataExchanger.               *)
(*                                                                         *)
(* Python lists and numpy arrays are functions over 0..len-1, so that an    *)
(* index of the model is the index of the source.                           *)
(***************************************************************************)
EXTENDS Integers, Sequences, FiniteSets, TLC

\* ------------------------------------------------------------------ bounds
MaxNpts  == 6      \* largest number of points along an axis (1D grids)
MaxPad   == 2      \* largest padding
MaxShift == 2      \* largest multiplicity
MaxSize  == 3      \* largest communicator size (1D grids)

VARIABLES
    inp,      \* CartDecomposition.__init__: the arguments (same on all ranks)
    cdims,    \* what compute_dims returns for these arguments
    pc,       \* per rank: position in the constructor
    cart,     \* per rank: the fields of the constructed object
    ncoll,    \* per rank: number of collective calls issued so far
    err,      \* per rank: the exception raised ("" when none)
    \* CartDataExchanger.update_ghost_regions on every process of a grid
    topo,     \* per rank: the CartDecomposition the exchanger was built from
    dirArg,   \* the direction argument of the call (NoAxis: omitted)
    arr,      \* per rank: the local array, flattened in C order
    hpc,      \* per rank: [axis, step] position in update_ghost_regions
    rreq,     \* per rank, per disp: state of the receive request
    sreq,     \* per rank, per disp: state of the send request
    chan,     \* per <<source, dest, tag>>: the messages sent and not yet received
    hround,   \* per rank: the index of its current call of update_ghost_regions
    \* InterfacesCartDecomposition.__init__ on every rank of the pool
    scen,     \* the MultiCartDecomposition and the interface list
    prog,     \* per rank: the communication calls its constructor makes
    ipc,      \* per rank: index of the current call of the constructor
    inside,   \* per rank: whether the rank is inside that operation
    carts,    \* per rank: the MultiCartDecomposition passed as `carts`
    ranks_in_topo, \* per rank and interface: [ranks_in_topo_i, ranks_in_topo_j]
    posted,   \* per rank: the messages it posted with Isend, in order
    intercomm, \* per rank and interface: self._intercomm of the interface
    started,  \* per rank and interface: what start_update_ghost_regions did
    \* InterfaceCartDataExchanger on the boundary ranks of one interface
    ixs,          \* the two sides of the interface and the caller's plan
    array_minus,  \* per rank and field: the array passed as array_minus
    array_plus,   \* per rank and field: the array passed as array_plus
    exchanger,    \* per rank: the buffer types and tables of an exchanger
    recv_buf,     \* per rank and exchanger: self._recv_buf
    xpc,          \* per rank: index of the next call of the plan
    reqs,         \* per rank: the requests Iallgatherv returned, in order
    \* MultiCartDecomposition.__init__ on every rank of the pool
    minp,     \* the arguments, the rank ranges and compute_dims' results
    mpc,      \* per rank: position in the constructor
    mcoll,    \* per rank: number of collective calls issued so far
    mobj,     \* per rank: the fields of the object under construction
    merr,     \* per rank: the exception raised out of the constructor
    aborted,  \* comm.Abort has been called: the pool is gone
    \* CartDecomposition.reduce_elements and reduce_grid on every rank
    rcall,    \* the topology's arguments, the method called and its arguments
    this,     \* per rank: the topology the method is called on (self)
    rpc,      \* per rank: position in the call
    result,   \* per rank: the topology the call returned
    rerr,     \* per rank: the exception the call raised ("" when none)
    \* psydac.core.arrays: one call of matmul, sum_vec, min_vec or max_vec
    acall,    \* the function called, its arguments and the arrays at the call
    mem,      \* the content of every array, by the name of the array
    apc,      \* "call" before the call, "returned" after it
    aret      \* the value returned (or the exception raised)

cartVars  == <<inp, cdims, pc, cart, ncoll, err>>
haloVars  == <<topo, dirArg, arr, hpc, rreq, sreq, chan, hround>>
ictorVars == <<scen, prog, ipc, inside, carts, ranks_in_topo, posted,
               intercomm, started>>
xchgVars  == <<ixs, array_minus, array_plus, exchanger, recv_buf, xpc, reqs>>
multiVars == <<minp, mpc, mcoll, mobj, merr, aborted>>
reduceVars == <<rcall, this, rpc, result, rerr>>
arraysVars == <<acall, mem, apc, aret>>
vars      == <<cartVars, haloVars, ictorVars, xchgVars, multiVars, reduceVars,
               arraysVars>>

\* the variables a specification does not use keep their idle value
nonCartVars  == <<haloVars, ictorVars, xchgVars, multiVars, reduceVars, arraysVars>>
nonHaloVars  == <<cartVars, ictorVars, xchgVars, multiVars, reduceVars, arraysVars>>
nonIctorVars == <<cartVars, haloVars, xchgVars, multiVars, reduceVars, arraysVars>>
nonXchgVars  == <<cartVars, haloVars, ictorVars, multiVars, reduceVars, arraysVars>>
nonMultiVars == <<cartVars, haloVars, ictorVars, xchgVars, reduceVars, arraysVars>>
nonReduceVars == <<cartVars, haloVars, ictorVars, xchgVars, multiVars, arraysVars>>
nonArraysVars == <<cartVars, haloVars, ictorVars, xchgVars, multiVars, reduceVars>>

IdleCart ==
    /\ inp = << >> /\ cdims = << >> /\ pc = << >> /\ cart = << >>
    /\ ncoll = << >> /\ err = << >>

IdleHalo ==
    /\ topo = << >> /\ dirArg = 0 /\ arr = << >> /\ hpc = << >>
    /\ rreq = << >> /\ sreq = << >> /\ chan = << >> /\ hround = << >>

IdleIctor ==
    /\ scen = << >> /\ prog = << >> /\ ipc = << >> /\ inside = << >>
    /\ carts = << >> /\ ranks_in_topo = << >> /\ posted = << >>
    /\ intercomm = << >> /\ started = << >>

IdleReduce ==
    /\ rcall = << >> /\ this = << >> /\ rpc = << >> /\ result = << >>
    /\ rerr = << >>

IdleArrays ==
    /\ acall = << >> /\ mem = << >> /\ apc = "" /\ aret = ""

IdleMulti ==
    /\ minp = << >> /\ mpc = << >> /\ mcoll = << >> /\ mobj = << >>
    /\ merr = << >> /\ aborted = FALSE

IdleXchg ==
    /\ ixs = << >> /\ array_minus = << >> /\ array_plus = << >>
    /\ exchanger = << >> /\ recv_buf = << >> /\ xpc = << >> /\ reqs = << >>

\* ----------------------------------------------------------------- helpers
\* A Python list written as a TLA+ tuple, indexed from 0.
Vec(s) == [i \in 0..(Len(s) - 1) |-> s[i + 1]]

NDim(f) == Cardinality(DOMAIN f)

RECURSIVE ProdUpTo(_, _)
ProdUpTo(f, k) == IF k < 0 THEN 1 ELSE f[k] * ProdUpTo(f, k - 1)

\* np.product over a 0-indexed list
Product(f) == ProdUpTo(f, NDim(f) - 1)

RECURSIVE ProdFrom(_, _)
ProdFrom(f, k) == IF k >= NDim(f) THEN 1 ELSE f[k] * ProdFrom(f, k + 1)

\* np.unravel_index(rank, dims), C order; also MPI_Cart_coords
Unravel(rank, dims) ==
    [a \in DOMAIN dims |-> (rank \div ProdFrom(dims, a + 1)) % dims[a]]

RECURSIVE RavelUpTo(_, _, _)
RavelUpTo(ii, dims, k) ==
    IF k < 0 THEN 0 ELSE RavelUpTo(ii, dims, k - 1) * dims[k] + ii[k]

\* np.ravel_multi_index(ii, dims, order='C'); also MPI_Cart_rank
Ravel(ii, dims) == RavelUpTo(ii, dims, NDim(dims) - 1)

\* MPI.PROC_NULL, the "no neighbour" rank MPI_Cart_shift returns
PROC_NULL == 0 - 1

\* A Python value used as a periodicity flag: True, False, or the int 1
\* (truthy, but not a bool).
PyBools  == {"True", "False"}
IsBool(x) == x \in PyBools
Truthy(x) == x \in {"True", "1"}

\* -------------------------------------------------- compute_dims (partition)
\* psydac.ddm.partition.compute_dims( size, gridsizes, min_blocksizes ):
\* some factorisation of size whose product is size and whose blocks hold
\* at least one point along every axis; the empty function stands for
\* "no valid factorisation" (the call raises).
NoDims == << >>

Factorisations(size, nd) ==
    {d \in [0..(nd - 1) -> 1..size] : Product(d) = size}

ValidDims(size, gridsizes, pads) ==
    {d \in Factorisations(size, NDim(gridsizes)) :
        \A a \in DOMAIN gridsizes : gridsizes[a] \div d[a] >= 1}

ComputeDimsResults(size, gridsizes, pads) ==
    IF ValidDims(size, gridsizes, pads) = {} THEN {NoDims}
    ELSE ValidDims(size, gridsizes, pads)

\* -------------------------------------------- CartDecomposition.__init__
\* mutant: the index space is not reduced by the multiplicity
ReducedNptsPlain(n, m, p) == n

\* line 691 (the conditional on the periodicity has the same two branches)
ReducedNpts(n, m, p) == IF m > 1 THEN (n - p - 1) \div m ELSE n

\* lines 728-730
ReducedGlobalStarts(nr, d) == [c \in 0..(d - 1) |-> (c * nr) \div d]

ReducedGlobalEnds(nr, d, m, p) ==
    [c \in 0..(d - 1) |->
        ((c + 1) * nr) \div d - 1 + (IF m > 1 /\ c = d - 1 THEN p + 1 ELSE 0)]

\* mutant: the reduced block lengths added up without the multiplicity
GlobalStartAtNoShift(rs, re, m, c) ==
    IF c = 0 THEN 0 ELSE re[c - 1] - rs[0] + 1

\* lines 744-746
RECURSIVE GlobalStartAt(_, _, _, _)
GlobalStartAt(rs, re, m, c) ==
    IF c = 0 THEN 0
    ELSE GlobalStartAt(rs, re, m, c - 1) + (re[c - 1] - rs[c - 1] + 1) * m

GlobalStarts(rs, re, m, d) == [c \in 0..(d - 1) |-> GlobalStartAt(rs, re, m, c)]

\* mutant: the last end taken from the next start like the others
GlobalEndsNoLast(gs, d, n) ==
    [c \in 0..(d - 1) |-> IF c < d - 1 THEN gs[c + 1] - 1 ELSE gs[c]]

\* line 748
GlobalEnds(gs, d, n) ==
    [c \in 0..(d - 1) |-> IF c < d - 1 THEN gs[c + 1] - 1 ELSE n - 1]

\* MPI_Cart_shift( direction, disp ) of the process with Cartesian rank
\* `rank`: <<rank_source, rank_dest>>
CartRankAt(rank, dims, periods, direction, k) ==
    LET c == Unravel(rank, dims)
        t == c[direction] + k
        d == dims[direction]
    IN  IF periods[direction]
        THEN Ravel([c EXCEPT ![direction] = t % d], dims)
        ELSE IF t < 0 \/ t >= d THEN PROC_NULL
             ELSE Ravel([c EXCEPT ![direction] = t], dims)

CartShift(rank, dims, periods, direction, disp) ==
    << CartRankAt(rank, dims, periods, direction, 0 - disp),
       CartRankAt(rank, dims, periods, direction, disp) >>

\* mutant: for disp > 0 the send window starts one ghost width too far
ComputeShiftInfoSendGhost(c, direction, disp) ==
    LET sh      == CartShift(c.rank_in_topo, c.dims, c.periods, direction, disp)
        reorder == c.reverse_axis = direction
        s == c.starts[direction]
        e == c.ends[direction]
        p == c.pads[direction]
        m == c.shifts[direction]
        zeros == [a \in DOMAIN c.shape |-> 0]
    IN  [ rank_dest   |-> IF reorder THEN sh[1] ELSE sh[2],
          rank_source |-> IF reorder THEN sh[2] ELSE sh[1],
          buf_shape   |-> [c.shape EXCEPT ![direction] = m * p],
          send_starts |-> IF disp > 0
                          THEN [zeros EXCEPT ![direction] = e - s + 1 + m * p]
                          ELSE [zeros EXCEPT ![direction] = m * p],
          recv_starts |-> IF disp > 0
                          THEN [zeros EXCEPT ![direction] = 0]
                          ELSE [zeros EXCEPT ![direction] = e - s + 1 + m * p] ]

\* mutant: the source rank is taken to be the destination rank
ComputeShiftInfoSourceIsDest(c, direction, disp) ==
    LET sh      == CartShift(c.rank_in_topo, c.dims, c.periods, direction, disp)
        reorder == c.reverse_axis = direction
        s == c.starts[direction]
        e == c.ends[direction]
        p == c.pads[direction]
        m == c.shifts[direction]
        zeros == [a \in DOMAIN c.shape |-> 0]
    IN  [ rank_dest   |-> IF reorder THEN sh[1] ELSE sh[2],
          rank_source |-> IF reorder THEN sh[1] ELSE sh[2],
          buf_shape   |-> [c.shape EXCEPT ![direction] = m * p],
          send_starts |-> IF disp > 0
                          THEN [zeros EXCEPT ![direction] = e - s + 1]
                          ELSE [zeros EXCEPT ![direction] = m * p],
          recv_starts |-> IF disp > 0
                          THEN [zeros EXCEPT ![direction] = 0]
                          ELSE [zeros EXCEPT ![direction] = e - s + 1 + m * p] ]

\* mutant: the windows as wide as the owned block along the direction
ComputeShiftInfoOwnedWidth(c, direction, disp) ==
    LET sh      == CartShift(c.rank_in_topo, c.dims, c.periods, direction, disp)
        reorder == c.reverse_axis = direction
        s == c.starts[direction]
        e == c.ends[direction]
        p == c.pads[direction]
        m == c.shifts[direction]
        zeros == [a \in DOMAIN c.shape |-> 0]
    IN  [ rank_dest   |-> IF reorder THEN sh[1] ELSE sh[2],
          rank_source |-> IF reorder THEN sh[2] ELSE sh[1],
          buf_shape   |-> [c.shape EXCEPT ![direction] = e - s + 1],
          send_starts |-> IF disp > 0
                          THEN [zeros EXCEPT ![direction] = m * p]
                          ELSE [zeros EXCEPT ![direction] = m * p],
          recv_starts |-> IF disp > 0
                          THEN [zeros EXCEPT ![direction] = 0]
                          ELSE [zeros EXCEPT ![direction] = 0] ]

\* mutant: for disp > 0 the receive window starts at the first owned cell
ComputeShiftInfoRecvOwned(c, direction, disp) ==
    LET sh      == CartShift(c.rank_in_topo, c.dims, c.periods, direction, disp)
        reorder == c.reverse_axis = direction
        s == c.starts[direction]
        e == c.ends[direction]
        p == c.pads[direction]
        m == c.shifts[direction]
        zeros == [a \in DOMAIN c.shape |-> 0]
    IN  [ rank_dest   |-> IF reorder THEN sh[1] ELSE sh[2],
          rank_source |-> IF reorder THEN sh[2] ELSE sh[1],
          buf_shape   |-> [c.shape EXCEPT ![direction] = m * p],
          send_starts |-> IF disp > 0
                          THEN [zeros EXCEPT ![direction] = e - s + 1]
                          ELSE [zeros EXCEPT ![direction] = m * p],
          recv_starts |-> IF disp > 0
                          THEN [zeros EXCEPT ![direction] = m * p]
                          ELSE [zeros EXCEPT ![direction] = e - s + 1 + m * p] ]

\* lines 944-982, on the fields of the object `c`
ComputeShiftInfo(c, direction, disp) ==
    LET sh      == CartShift(c.rank_in_topo, c.dims, c.periods, direction, disp)
        reorder == c.reverse_axis = direction
        s == c.starts[direction]
        e == c.ends[direction]
        p == c.pads[direction]
        m == c.shifts[direction]
        zeros == [a \in DOMAIN c.shape |-> 0]
    IN  [ rank_dest   |-> IF reorder THEN sh[1] ELSE sh[2],
          rank_source |-> IF reorder THEN sh[2] ELSE sh[1],
          buf_shape   |-> [c.shape EXCEPT ![direction] = m * p],
          send_starts |-> IF disp > 0
                          THEN [zeros EXCEPT ![direction] = e - s + 1]
                          ELSE [zeros EXCEPT ![direction] = m * p],
          recv_starts |-> IF disp > 0
                          THEN [zeros EXCEPT ![direction] = 0]
                          ELSE [zeros EXCEPT ![direction] = e - s + 1 + m * p] ]

ShiftKeys(nd) == (0..(nd - 1)) \X {0 - 1, 1}

AllShiftInfo(c) ==
    [k \in ShiftKeys(NDim(c.npts)) |-> ComputeShiftInfo(c, k[1], k[2])]

\* mutant: the coordinates of the Cartesian grid kept as they are
CartCoordsNotReversed(rank, dims, reverse_axis) == Unravel(rank, dims)

\* lines 712-718: the coordinates of the process, reversed along reverse_axis
CartCoords(rank, dims, reverse_axis) ==
    LET c == Unravel(rank, dims)
    IN  IF reverse_axis \in DOMAIN dims
        THEN [c EXCEPT ![reverse_axis] = dims[reverse_axis] - c[reverse_axis] - 1]
        ELSE c

\* lines 667-781: the object built on Cartesian rank `rank`, from the
\* validated arguments and the process grid `dims`
BuildCart(npts, pads, periods, shifts, dims, reverse_axis, rank) ==
    LET ax  == DOMAIN npts
        rn  == [a \in ax |-> ReducedNpts(npts[a], shifts[a], pads[a])]
        rgs == [a \in ax |-> ReducedGlobalStarts(rn[a], dims[a])]
        rge == [a \in ax |-> ReducedGlobalEnds(rn[a], dims[a], shifts[a], pads[a])]
        gs  == [a \in ax |-> GlobalStarts(rgs[a], rge[a], shifts[a], dims[a])]
        ge  == [a \in ax |-> GlobalEnds(gs[a], dims[a], npts[a])]
        co  == CartCoords(rank, dims, reverse_axis)
        st  == [a \in ax |-> gs[a][co[a]]]
        en  == [a \in ax |-> ge[a][co[a]]]
        base == [ npts |-> npts, pads |-> pads, periods |-> periods,
                  shifts |-> shifts, dims |-> dims,
                  reverse_axis |-> reverse_axis,
                  rank_in_topo |-> rank, coords |-> co,
                  reduced_global_starts |-> rgs, reduced_global_ends |-> rge,
                  global_starts |-> gs, global_ends |-> ge,
                  starts |-> st, ends |-> en,
                  shape |-> [a \in ax |-> en[a] - st[a] + 1 + 2 * shifts[a] * pads[a]] ]
    IN  [ npts |-> npts, pads |-> pads, periods |-> periods,
          shifts |-> shifts, dims |-> dims, reverse_axis |-> reverse_axis,
          rank_in_topo |-> rank, coords |-> co,
          reduced_global_starts |-> rgs, reduced_global_ends |-> rge,
          global_starts |-> gs, global_ends |-> ge,
          starts |-> st, ends |-> en, shape |-> base.shape,
          shift_info |-> AllShiftInfo(base),
          parent_starts |-> [a \in ax |-> "None"],
          parent_ends   |-> [a \in ax |-> "None"] ]

\* "def parent_starts( self ): return self._starts": the property gives the
\* starts of the object itself
ParentStarts(c) == c.starts

\* "def parent_ends( self ): return self._parent_ends"
ParentEnds(c) == c.parent_ends

\* ------------------------------------------------- constructor arguments
NoAxis == 0 - 1     \* reverse_axis=None

Args(npts, pads, periods, shifts, size, given, nprocs, rev) ==
    [ npts |-> npts, pads |-> pads, periods |-> periods, shifts |-> shifts,
      size |-> size, nprocs_given |-> given, nprocs |-> nprocs,
      reverse_axis |-> rev ]

\* one axis; point counts below 1, negative pads and non-bool flags included
Inputs1D ==
    { Args(Vec(<<n>>), Vec(<<p>>), Vec(<<P>>), Vec(<<m>>), sz, g, Vec(<<d>>), rev) :
        n \in 0..MaxNpts, p \in (0 - 1)..MaxPad, P \in {"True", "False", "1"},
        m \in 1..MaxShift, sz \in 1..MaxSize,
        g \in BOOLEAN, d \in 1..MaxSize, rev \in {NoAxis, 0} }

\* two axes
Npts2D == {3, 5}
Inputs2D ==
    { Args(Vec(<<n0, n1>>), Vec(<<p0, p1>>), Vec(<<P0, P1>>), Vec(<<m, m>>),
           sz, FALSE, Vec(<<1, 1>>), rev) :
        n0 \in Npts2D, n1 \in Npts2D, p0 \in 0..1, p1 \in 0..1,
        P0 \in PyBools, P1 \in PyBools, m \in 1..MaxShift,
        sz \in 2..MaxSize, rev \in {NoAxis, 1} }

\* len(npts), len(pads), len(periods) not all equal
InputsLen ==
    { Args(Vec(<<4>>), Vec(<<1, 1>>), Vec(<<"True">>), Vec(<<1>>), 2, FALSE, Vec(<<1>>), NoAxis),
      Args(Vec(<<4>>), Vec(<<1>>), Vec(<<"True", "False">>), Vec(<<1>>), 2, FALSE, Vec(<<1>>), NoAxis),
      Args(Vec(<<4, 4>>), Vec(<<1>>), Vec(<<"True">>), Vec(<<1, 1>>), 2, FALSE, Vec(<<1, 1>>), NoAxis),
      Args(Vec(<<4, 4>>), Vec(<<1, 1>>), Vec(<<"True", "True">>), Vec(<<1, 1>>), 2, TRUE, Vec(<<2>>), NoAxis) }

CartInputs == {i \in Inputs1D : i.nprocs_given \/ i.nprocs[0] = 1} \cup Inputs2D \cup InputsLen

\* mutant: the periodicity flags are not checked
ArgsValidNoBoolCheck(i) ==
    /\ NDim(i.npts) = NDim(i.pads) /\ NDim(i.pads) = NDim(i.periods)
    /\ \A a \in DOMAIN i.npts : i.npts[a] >= 1
    /\ \A a \in DOMAIN i.pads : i.pads[a] >= 0

\* lines 660-663
ArgsValid(i) ==
    /\ NDim(i.npts) = NDim(i.pads) /\ NDim(i.pads) = NDim(i.periods)
    /\ \A a \in DOMAIN i.npts : i.npts[a] >= 1
    /\ \A a \in DOMAIN i.pads : i.pads[a] >= 0
    /\ \A a \in DOMAIN i.periods : IsBool(i.periods[a])

\* line 691
ReducedNptsOf(i) ==
    [a \in DOMAIN i.npts |-> ReducedNpts(i.npts[a], i.shifts[a], i.pads[a])]

\* mutant: the product of the process grid is not compared with the size
DimsOrErrorNoProductCheck(i, computed) ==
    IF i.nprocs_given
    THEN IF NDim(i.nprocs) # NDim(i.npts) THEN <<"AssertionError", NoDims>>
         ELSE <<"", i.nprocs>>
    ELSE IF computed = NoDims THEN <<"ValueError", NoDims>>
         ELSE <<"", computed>>

\* lines 693-698: <<error, nprocs>>
DimsOrError(i, computed) ==
    IF i.nprocs_given
    THEN IF NDim(i.nprocs) # NDim(i.npts) THEN <<"AssertionError", NoDims>>
         ELSE IF Product(i.nprocs) # i.size THEN <<"AssertionError", NoDims>>
         ELSE <<"", i.nprocs>>
    ELSE IF computed = NoDims THEN <<"ValueError", NoDims>>
         ELSE IF Product(computed) # i.size THEN <<"AssertionError", NoDims>>
         ELSE <<"", computed>>

Ranks == DOMAIN pc

NoCart == [built |-> FALSE]

\* the process grid the constructor uses
DimsOf(i, computed) == DimsOrError(i, computed)[2]

PeriodsOf(i) == [a \in DOMAIN i.periods |-> Truthy(i.periods[a])]

InitCart ==
    /\ inp \in CartInputs
    /\ cdims \in (IF ArgsValid(inp)
                  THEN ComputeDimsResults(inp.size, ReducedNptsOf(inp), inp.pads)
                  ELSE {NoDims})
    /\ pc    = [r \in 0..(inp.size - 1) |-> "start"]
    /\ cart  = [r \in 0..(inp.size - 1) |-> NoCart]
    /\ ncoll = [r \in 0..(inp.size - 1) |-> 0]
    /\ err   = [r \in 0..(inp.size - 1) |-> ""]
    /\ IdleHalo /\ IdleIctor /\ IdleXchg /\ IdleMulti /\ IdleReduce /\ IdleArrays

\* lines 660-665: the assertions on the arguments
CheckArguments(r) ==
    /\ pc[r] = "start"
    /\ IF ArgsValid(inp)
       THEN pc' = [pc EXCEPT ![r] = "checked"] /\ UNCHANGED err
       ELSE /\ pc'  = [pc EXCEPT ![r] = "raised"]
            /\ err' = [err EXCEPT ![r] = "AssertionError"]
    /\ UNCHANGED <<inp, cdims, cart, ncoll>>
    /\ UNCHANGED nonCartVars

\* lines 691-700: compute_dims or the explicit nprocs, and the product check
ChooseDims(r) ==
    /\ pc[r] = "checked"
    /\ LET res == DimsOrError(inp, cdims)
       IN  IF res[1] = ""
           THEN pc' = [pc EXCEPT ![r] = "dims"] /\ UNCHANGED err
           ELSE /\ pc'  = [pc EXCEPT ![r] = "raised"]
                /\ err' = [err EXCEPT ![r] = res[1]]
    /\ UNCHANGED <<inp, cdims, cart, ncoll>>
    /\ UNCHANGED nonCartVars

\* line 706: the call of comm.Create_cart (collective over comm)
CreateCart(r) ==
    /\ pc[r] = "dims"
    /\ pc'    = [pc EXCEPT ![r] = "in_coll"]
    /\ ncoll' = [ncoll EXCEPT ![r] = 1]
    /\ UNCHANGED <<inp, cdims, cart, err>>
    /\ UNCHANGED nonCartVars

\* a collective call returns once every rank of the communicator has made it
CollectiveComplete(r) == \A q \in Ranks : ncoll[q] >= ncoll[r]

\* lines 706-770: Create_cart returns; coordinates, tables and local shape
\* are computed and the first Cartesian sub-communicator is requested
CartCreated(r) ==
    /\ pc[r] = "in_coll" /\ ncoll[r] = 1
    /\ CollectiveComplete(r)
    /\ cart'  = [cart EXCEPT ![r] =
                    BuildCart(inp.npts, inp.pads, PeriodsOf(inp), inp.shifts,
                              DimsOf(inp, cdims), inp.reverse_axis, r)]
    /\ ncoll' = [ncoll EXCEPT ![r] = 2]
    /\ UNCHANGED <<inp, cdims, pc, err>>
    /\ UNCHANGED nonCartVars

\* lines 766-781: a comm_cart.Sub returns; the next one is requested, or the
\* shift information is stored and the constructor returns
SubReturned(r) ==
    /\ pc[r] = "in_coll" /\ ncoll[r] > 1
    /\ CollectiveComplete(r)
    /\ IF ncoll[r] < 1 + NDim(inp.npts)
       THEN ncoll' = [ncoll EXCEPT ![r] = @ + 1] /\ UNCHANGED pc
       ELSE pc' = [pc EXCEPT ![r] = "done"] /\ UNCHANGED ncoll
    /\ UNCHANGED <<inp, cdims, cart, err>>
    /\ UNCHANGED nonCartVars

NextCart ==
    \/ \E r \in Ranks : CheckArguments(r)
    \/ \E r \in Ranks : ChooseDims(r)
    \/ \E r \in Ranks : CreateCart(r)
    \/ \E r \in Ranks : CartCreated(r)
    \/ \E r \in Ranks : SubReturned(r)

SpecCart == InitCart /\ [][NextCart]_vars

\* ======================================================== claims, SpecCart
Constructed(r) == pc[r] \in {"in_coll", "done"} /\ ncoll[r] >= 2

BlockLen(c, a, k) == c.global_ends[a][k] - c.global_starts[a][k] + 1

RECURSIVE SumBlockLens(_, _, _)
SumBlockLens(c, a, k) ==
    IF k < 0 THEN 0 ELSE BlockLen(c, a, k) + SumBlockLens(c, a, k - 1)

\* C1: on every constructed topology and every axis, global_starts[axis][0]
\* is 0, global_ends[axis][nprocs-1] is npts-1, every block starts right
\* after the end of the previous one, every index of [0, npts) lies in
\* exactly one block, and the block lengths sum to npts.
C1_Tiling ==
    \A r \in Ranks : Constructed(r) =>
        LET c == cart[r] IN
        \A a \in DOMAIN c.npts :
            LET d == c.dims[a] IN
            /\ c.global_starts[a][0] = 0
            /\ c.global_ends[a][d - 1] = c.npts[a] - 1
            /\ \A k \in 1..(d - 1) :
                   c.global_starts[a][k] = c.global_ends[a][k - 1] + 1
            /\ \A i \in 0..(c.npts[a] - 1) :
                   Cardinality({k \in 0..(d - 1) :
                       c.global_starts[a][k] <= i /\ i <= c.global_ends[a][k]}) = 1
            /\ SumBlockLens(c, a, d - 1) = c.npts[a]

\* a topology with multiplicity 2 on three processes whose last block
\* absorbs a remainder
C1_Witness ==
    \E r \in Ranks :
        /\ Constructed(r)
        /\ cart[r].shifts[0] > 1 /\ cart[r].dims[0] = 3
        /\ BlockLen(cart[r], 0, 2) > BlockLen(cart[r], 0, 0)

\* C2: when the process grid comes from compute_dims, its product is the
\* communicator size and every block along every axis holds at least one
\* point (global_ends >= global_starts), the last block with shift > 1
\* included; the product is the communicator size also for an explicit nprocs.
C2_NonEmptyBlocks ==
    \A r \in Ranks : Constructed(r) =>
        LET c == cart[r] IN
        /\ Product(c.dims) = inp.size
        /\ ~inp.nprocs_given =>
              \A a \in DOMAIN c.npts : \A k \in 0..(c.dims[a] - 1) :
                  c.global_ends[a][k] >= c.global_starts[a][k]

C2_Witness ==
    \E r \in Ranks :
        /\ Constructed(r) /\ ~inp.nprocs_given
        /\ cart[r].shifts[0] > 1 /\ cart[r].dims[0] >= 2
        /\ BlockLen(cart[r], 0, cart[r].dims[0] - 1) >= 1

\* the length of block k when an index space of size nr is split evenly
\* over d processes
EvenBlockLen(nr, d, k) == ((k + 1) * nr) \div d - (k * nr) \div d

\* C22: on every axis with multiplicity m > 1, every block but the last has
\* m times the length of the same block of the reduced index space of size
\* (npts-pad-1)//m, hence a multiple of m; the last block holds all the
\* remaining npts - global_starts[-1] points.
C22_BlocksMultipleOfShift ==
    \A r \in Ranks : Constructed(r) =>
        LET c == cart[r] IN
        \A a \in DOMAIN c.npts : c.shifts[a] > 1 =>
            LET d  == c.dims[a]
                m  == c.shifts[a]
                nr == (c.npts[a] - c.pads[a] - 1) \div m
            IN  /\ \A k \in 0..(d - 2) :
                      /\ BlockLen(c, a, k) = m * EvenBlockLen(nr, d, k)
                      /\ BlockLen(c, a, k) % m = 0
                /\ BlockLen(c, a, d - 1) = c.npts[a] - c.global_starts[a][d - 1]

\* multiplicity 2 on at least two processes: the first block is a non-empty
\* multiple of 2 and the last block is not a multiple of 2
C22_Witness ==
    \E r \in Ranks :
        /\ Constructed(r)
        /\ cart[r].shifts[0] = 2 /\ cart[r].dims[0] >= 2
        /\ BlockLen(cart[r], 0, 0) >= 2
        /\ BlockLen(cart[r], 0, cart[r].dims[0] - 1) % 2 = 1

\* the cells of a window of width w starting at offset o, and the owned
\* and ghost cells of the local array, along one axis
WindowCells(o, w) == o..(o + w - 1)
OwnedCells(c, a) ==
    (c.shifts[a] * c.pads[a])..(c.shifts[a] * c.pads[a] + c.ends[a] - c.starts[a])
LowerGhostCells(c, a) == 0..(c.shifts[a] * c.pads[a] - 1)
UpperGhostCells(c, a) ==
    (c.shifts[a] * c.pads[a] + c.ends[a] - c.starts[a] + 1)..(c.shape[a] - 1)

\* the shapes and offsets of the shift info, as numbers
ShiftInfoOffsets(c) ==
    \A a \in DOMAIN c.npts :
        LET L == c.ends[a] - c.starts[a] + 1
            w == c.shifts[a] * c.pads[a]
        IN  /\ c.shape[a] = L + 2 * w
            /\ \A disp \in {0 - 1, 1} :
                  LET info == c.shift_info[<<a, disp>>] IN
                  /\ info.buf_shape = [c.shape EXCEPT ![a] = w]
                  /\ info.send_starts[a] = (IF disp = 1 THEN L ELSE w)
                  /\ info.recv_starts[a] = (IF disp = 1 THEN 0 ELSE L + w)
                  /\ \A b \in DOMAIN c.npts : b # a =>
                        /\ info.send_starts[b] = 0
                        /\ info.recv_starts[b] = 0

\* what the windows are said to hold: owned cells are sent, the ghost
\* region of the side is received
ShiftInfoRegions(c) ==
    \A a \in DOMAIN c.npts : \A disp \in {0 - 1, 1} :
        LET info == c.shift_info[<<a, disp>>]
            w    == c.shifts[a] * c.pads[a]
        IN  /\ WindowCells(info.send_starts[a], w) \subseteq OwnedCells(c, a)
            /\ WindowCells(info.recv_starts[a], w) =
                  (IF disp = 1 THEN LowerGhostCells(c, a) ELSE UpperGhostCells(c, a))

\* C30 as stated: with L the owned length and w = shift*pad, the local shape
\* is L + 2w per axis, buf_shape is the shape with the axis entry w; for
\* disp = +1 the send window starts at L and is the last w owned cells, the
\* receive window starts at 0 and is the lower ghost region; for disp = -1
\* the send window starts at w and is the first w owned cells, the receive
\* window starts at L + w and is the upper ghost region; the offsets on the
\* other axes are 0.
C30_ShiftInfoGeometry ==
    \A r \in Ranks : Constructed(r) =>
        ShiftInfoOffsets(cart[r]) /\ ShiftInfoRegions(cart[r])

\* a tuple of None of length ndim (None is the string "None", an index an
\* integer: the two are told apart by their printed form)
TupleOfNone(t, ndim) ==
    /\ DOMAIN t = 0..(ndim - 1)
    /\ \A a \in DOMAIN t : ToString(t[a]) = ToString("None")

\* C39: on a directly constructed topology parent_starts and parent_ends
\* are both tuples of None of length ndim (on a topology derived by
\* reduce_elements they are the starts and ends of the original, which no
\* call of reduce_elements reaches: it raises before returning)
C39_ParentRange ==
    \A r \in Ranks : Constructed(r) =>
        /\ TupleOfNone(ParentStarts(cart[r]), NDim(cart[r].npts))
        /\ TupleOfNone(ParentEnds(cart[r]), NDim(cart[r].npts))

\* what the code does on a directly constructed topology: parent_ends is
\* the tuple of None, parent_starts is the starts of the topology
ParentRangeAsCoded ==
    \A r \in Ranks : Constructed(r) =>
        /\ ParentStarts(cart[r]) = cart[r].starts
        /\ TupleOfNone(ParentEnds(cart[r]), NDim(cart[r].npts))

\* the block next to block k on side sgn, wrapped on a periodic axis;
\* NoAxis when there is none
NextBlock(c, a, k, sgn) ==
    IF c.periods[a] THEN (k + sgn) % c.dims[a]
    ELSE IF k + sgn < 0 \/ k + sgn >= c.dims[a] THEN NoAxis ELSE k + sgn

\* rank q is the process that owns block k of axis a in the row of process
\* c (PROC_NULL for no block)
OwnsBlock(q, c, a, k) ==
    IF k = NoAxis THEN q = PROC_NULL
    ELSE /\ q \in Ranks
         /\ Constructed(q) =>
               /\ cart[q].starts[a] = c.global_starts[a][k]
               /\ cart[q].ends[a] = c.global_ends[a][k]
               /\ \A b \in DOMAIN c.npts \ {a} : cart[q].coords[b] = c.coords[b]

\* C28: with reverse_axis = a, the process at coordinate g of the Cartesian
\* grid owns block nprocs[a]-1-g along a, its rank_source and rank_dest for
\* axis a are those of the grid's shift primitive swapped, so that for
\* disp = +1 rank_dest owns the next-higher block and rank_source the
\* next-lower one (none at a non-periodic end); along every other axis the
\* coordinate and the ranks are those of the grid.
C28_ReverseAxis ==
    \A r \in Ranks : (Constructed(r) /\ cart[r].reverse_axis # NoAxis) =>
        LET c  == cart[r]
            a  == c.reverse_axis
            g  == Unravel(c.rank_in_topo, c.dims)
            k  == c.dims[a] - 1 - g[a]
        IN  /\ c.coords[a] = k
            /\ c.starts[a] = c.global_starts[a][k]
            /\ c.ends[a] = c.global_ends[a][k]
            /\ \A disp \in {0 - 1, 1} :
                  LET sh == CartShift(c.rank_in_topo, c.dims, c.periods, a, disp)
                  IN  /\ c.shift_info[<<a, disp>>].rank_source = sh[2]
                      /\ c.shift_info[<<a, disp>>].rank_dest = sh[1]
            /\ OwnsBlock(c.shift_info[<<a, 1>>].rank_dest, c, a, NextBlock(c, a, k, 1))
            /\ OwnsBlock(c.shift_info[<<a, 1>>].rank_source, c, a,
                         NextBlock(c, a, k, 0 - 1))
            /\ \A b \in DOMAIN c.npts \ {a} :
                  /\ c.coords[b] = g[b]
                  /\ \A disp \in {0 - 1, 1} :
                        LET sh == CartShift(c.rank_in_topo, c.dims, c.periods, b, disp)
                        IN  /\ c.shift_info[<<b, disp>>].rank_source = sh[1]
                            /\ c.shift_info[<<b, disp>>].rank_dest = sh[2]

\* three processes on a reversed non-periodic axis, all constructed: rank 0
\* owns the last block, has no destination for disp = +1 and receives from
\* rank 1
C28_Witness ==
    /\ \A r \in Ranks : Constructed(r) /\ cart[r].reverse_axis = 0
    /\ inp.size = 3 /\ cart[0].dims[0] = 3 /\ ~cart[0].periods[0]
    /\ cart[0].starts[0] = cart[0].global_starts[0][2]
    /\ cart[0].shift_info[<<0, 1>>].rank_dest = PROC_NULL
    /\ cart[0].shift_info[<<0, 1>>].rank_source = 1

\* the inputs the claim calls invalid, stated on the arguments
InvalidInput(i) ==
    \/ NDim(i.npts) # NDim(i.pads) \/ NDim(i.pads) # NDim(i.periods)
    \/ \E a \in DOMAIN i.npts : i.npts[a] < 1
    \/ \E a \in DOMAIN i.pads : i.pads[a] < 0
    \/ \E a \in DOMAIN i.periods : i.periods[a] \notin {"True", "False"}

\* C10: with invalid arguments no rank issues a collective call (Create_cart,
\* Sub): a rank that has left the argument checks has raised an
\* AssertionError, so no rank waits inside a collective.
C10_InvalidRaisesBeforeCollective ==
    InvalidInput(inp) =>
        \A r \in Ranks :
            /\ ncoll[r] = 0
            /\ pc[r] \in {"start", "raised"}
            /\ pc[r] = "raised" => err[r] = "AssertionError"

\* every rank has raised on a non-bool periodicity flag
C10_Witness ==
    /\ inp.periods[0] = "1"
    /\ NDim(inp.npts) = 1 /\ inp.npts[0] >= 1 /\ inp.pads[0] >= 0
    /\ inp.size >= 2
    /\ \A r \in Ranks : pc[r] = "raised" /\ err[r] = "AssertionError"

\* valid arguments with an explicit nprocs whose product is not the size
NprocsMismatch ==
    /\ ArgsValid(inp) /\ inp.nprocs_given
    /\ NDim(inp.nprocs) = NDim(inp.npts)
    /\ Product(inp.nprocs) # inp.size

\* C11 (as stated): with an explicit nprocs whose product differs from the
\* pool size, a rank that has come to the grid creation is aborted with the
\* pool and has not raised an error of its own.
C11_AsStated ==
    NprocsMismatch =>
        \A r \in Ranks : pc[r] \notin {"start", "checked"} => pc[r] = "aborted"

\* C11 (amended): with an explicit nprocs whose product differs from the
\* pool size, every rank raises an AssertionError of its own before
\* Create_cart: no rank issues a collective call and no rank is aborted.
C11_MismatchRaises ==
    NprocsMismatch =>
        \A r \in Ranks :
            /\ ncoll[r] = 0
            /\ pc[r] \in {"start", "checked", "raised"}
            /\ pc[r] = "raised" => err[r] = "AssertionError"

\* three ranks have all raised on nprocs = [2]
C11_Witness ==
    /\ NprocsMismatch /\ inp.size = 3 /\ inp.nprocs[0] = 2
    /\ \A r \in Ranks : pc[r] = "raised" /\ err[r] = "AssertionError"

\* ================================= CartDataExchanger.update_ghost_regions
\* mutant: one tag for both displacements
TagSame(disp) == 42

\* line 1224
Tag(disp) == 42 + disp

Disps == {0 - 1, 1}

\* MPI subarray datatype (Create_subarray, lines 1313-1323): the flat C-order
\* index, in an array of shape `sizes`, of the k-th element of the block of
\* shape `subsizes` that starts at `starts`
SubarrayIndex(sizes, subsizes, starts, k) ==
    LET j == Unravel(k, subsizes)
    IN  Ravel([a \in DOMAIN sizes |-> starts[a] + j[a]], sizes)

SubarrayCells(sizes, subsizes, starts) ==
    [k \in 0..(Product(subsizes) - 1) |-> SubarrayIndex(sizes, subsizes, starts, k)]

\* lines 1313-1317
SendType(c, direction, disp) ==
    LET info == c.shift_info[<<direction, disp>>]
    IN  SubarrayCells(c.shape, info.buf_shape, info.send_starts)

\* lines 1319-1323
RecvType(c, direction, disp) ==
    LET info == c.shift_info[<<direction, disp>>]
    IN  SubarrayCells(c.shape, info.buf_shape, info.recv_starts)

Range(f) == {f[x] : x \in DOMAIN f}

\* the value a process stores in an owned cell before the exchange: the
\* global C-order index of the cell; ghost cells start with Stale
Stale == 0 - 1

GlobalIndexOf(c, i) ==
    [a \in DOMAIN c.npts |-> c.starts[a] - c.shifts[a] * c.pads[a] + i[a]]

IsOwned(c, i) ==
    \A a \in DOMAIN c.npts :
        /\ i[a] >= c.shifts[a] * c.pads[a]
        /\ i[a] <  c.shifts[a] * c.pads[a] + (c.ends[a] - c.starts[a] + 1)

InitialArray(c) ==
    [f \in 0..(Product(c.shape) - 1) |->
        LET i == Unravel(f, c.shape)
        IN  IF IsOwned(c, i) THEN Ravel(GlobalIndexOf(c, i), c.npts) ELSE Stale]

\* the grids on which the exchange is run: arguments accepted by the
\* constructor, with a process grid compute_dims may return
HaloArgs1D ==
    { Args(Vec(<<n>>), Vec(<<p>>), Vec(<<P>>), Vec(<<m>>), sz, FALSE, Vec(<<1>>), rev) :
        n \in (MaxNpts - 1)..MaxNpts, p \in 1..MaxPad, P \in PyBools,
        m \in 1..MaxShift, sz \in 1..MaxSize, rev \in {NoAxis, 0} }

HaloArgs2D ==
    { Args(Vec(<<3, n1>>), Vec(<<1, 1>>), Vec(<<P0, P1>>), Vec(<<1, 1>>),
           2, FALSE, Vec(<<1, 1>>), NoAxis) :
        n1 \in {2, 3}, P0 \in PyBools, P1 \in PyBools }

HaloArgs == {i \in HaloArgs1D : i.shifts[0] * i.pads[0] <= MaxPad} \cup HaloArgs2D

HRanks == DOMAIN topo

NoRequests == [d \in Disps |-> "none"]

InitHaloOn(args) ==
    /\ \E i \in args :
       \E dims \in (IF i.nprocs_given THEN {i.nprocs}
                    ELSE ValidDims(i.size, ReducedNptsOf(i), i.pads)) :
          topo = [r \in 0..(i.size - 1) |->
                    BuildCart(i.npts, i.pads, PeriodsOf(i), i.shifts, dims,
                              i.reverse_axis, r)]
    /\ dirArg \in {NoAxis} \cup (IF NDim(topo[0].npts) > 1 THEN DOMAIN topo[0].npts ELSE {})
    /\ arr  = [r \in HRanks |-> InitialArray(topo[r])]
    /\ hpc  = [r \in HRanks |-> [axis |-> IF dirArg = NoAxis THEN 0 ELSE dirArg,
                                 step |-> 0]]
    /\ rreq = [r \in HRanks |-> NoRequests]
    /\ sreq = [r \in HRanks |-> NoRequests]
    /\ chan = [k \in HRanks \X HRanks \X {Tag(d) : d \in Disps} |-> << >>]
    /\ hround = [r \in HRanks |-> 0]
    /\ IdleCart /\ IdleIctor /\ IdleXchg /\ IdleMulti /\ IdleReduce /\ IdleArrays

InitHalo == InitHaloOn(HaloArgs)

\* the grids with the largest point count and padding 1
HaloArgsFair ==
    {i \in HaloArgs : i.pads[0] = 1 /\ i.shifts[0] = 1
                      /\ i.npts[NDim(i.npts) - 1] \in {2, MaxNpts}}

InitHaloFair == InitHaloOn(HaloArgsFair)

\* an array whose ghost cells hold, before the exchange, a value of their
\* own each (whatever the caller left there): rank r, flat position f
GhostMark(r, f) == 0 - (2 + 100 * r + f)

MarkedArray(r, c) ==
    [f \in 0..(Product(c.shape) - 1) |->
        IF IsOwned(c, Unravel(f, c.shape)) THEN InitialArray(c)[f]
        ELSE GhostMark(r, f)]

\* the exchange run on arrays with marked ghost cells
InitHaloMarked ==
    /\ \E i \in HaloArgs :
       \E dims \in ValidDims(i.size, ReducedNptsOf(i), i.pads) :
          topo = [r \in 0..(i.size - 1) |->
                    BuildCart(i.npts, i.pads, PeriodsOf(i), i.shifts, dims,
                              i.reverse_axis, r)]
    /\ dirArg \in {NoAxis} \cup (IF NDim(topo[0].npts) > 1 THEN DOMAIN topo[0].npts ELSE {})
    /\ arr  = [r \in HRanks |-> MarkedArray(r, topo[r])]
    /\ hpc  = [r \in HRanks |-> [axis |-> IF dirArg = NoAxis THEN 0 ELSE dirArg,
                                 step |-> 0]]
    /\ rreq = [r \in HRanks |-> NoRequests]
    /\ sreq = [r \in HRanks |-> NoRequests]
    /\ chan = [k \in HRanks \X HRanks \X {Tag(d) : d \in Disps} |-> << >>]
    /\ hround = [r \in HRanks |-> 0]
    /\ IdleCart /\ IdleIctor /\ IdleXchg /\ IdleMulti /\ IdleReduce /\ IdleArrays

\* two-dimensional grids on two processes with an explicit nprocs, the
\* ghost region along axis 0 one or two cells wide
HaloArgsCorner ==
    { Args(Vec(<<3, 2>>), Vec(<<p0, 1>>), Vec(<<P0, P1>>), Vec(<<1, 1>>),
           2, TRUE, d, NoAxis) :
        p0 \in 1..MaxPad, P0 \in PyBools, P1 \in PyBools,
        d \in {Vec(<<2, 1>>), Vec(<<1, 2>>)} }

InitHaloCorner == InitHaloOn(HaloArgsCorner)

\* the displacement handled at a step of the one-axis exchange: the two
\* receives (lines 1230-1235), then the two sends (lines 1238-1243)
DispAt(step) == IF step \in {0, 2} THEN 0 - 1 ELSE 1

\* whether a send window shares cells with a receive window of the same axis
\* (the content sent is then read while a receive may be writing it)
SendOverlapsRecv(c, direction, disp) ==
    \E d \in Disps :
        Range(SendType(c, direction, disp)) \cap Range(RecvType(c, direction, d)) # {}

\* lines 1230-1235: comm.Irecv( recv_buf, info['rank_source'], tag(disp) );
\* a receive from MPI.PROC_NULL is complete at once and leaves the buffer alone
PostRecv(r) ==
    /\ hpc[r].step \in {0, 1}
    /\ LET disp == DispAt(hpc[r].step)
           info == topo[r].shift_info[<<hpc[r].axis, disp>>]
       IN  rreq' = [rreq EXCEPT ![r][disp] =
                       IF info.rank_source = PROC_NULL THEN "done" ELSE "posted"]
    /\ hpc' = [hpc EXCEPT ![r].step = @ + 1]
    /\ UNCHANGED <<hround, topo, dirArg, arr, sreq, chan>>
    /\ UNCHANGED nonHaloVars

\* the content of the send window of process r, in C order
Payload(r, direction, disp) ==
    LET cells == SendType(topo[r], direction, disp)
    IN  [k \in DOMAIN cells |-> arr[r][cells[k]]]

\* lines 1238-1243: comm.Isend( send_buf, info['rank_dest'], tag(disp) ).
\* The message holds the content of the send window; when the window shares
\* cells with a receive window the content may also be read later (late).
PostSend(r) ==
    /\ hpc[r].step \in {2, 3}
    /\ LET disp == DispAt(hpc[r].step)
           axis == hpc[r].axis
           info == topo[r].shift_info[<<axis, disp>>]
       IN  IF info.rank_dest = PROC_NULL
           THEN /\ sreq' = [sreq EXCEPT ![r][disp] = "done"]
                /\ UNCHANGED chan
           ELSE /\ sreq' = [sreq EXCEPT ![r][disp] = "posted"]
                /\ \E late \in (IF SendOverlapsRecv(topo[r], axis, disp)
                                THEN BOOLEAN ELSE {FALSE}) :
                      chan' = [chan EXCEPT ![<<r, info.rank_dest, Tag(disp)>>] =
                                  Append(@, [data |-> Payload(r, axis, disp),
                                             axis |-> axis, disp |-> disp,
                                             round |-> hround[r],
                                             late |-> late, buffered |-> FALSE])]
    /\ hpc' = [hpc EXCEPT ![r].step = @ + 1]
    /\ UNCHANGED <<hround, topo, dirArg, arr, rreq>>
    /\ UNCHANGED nonHaloVars

\* the array of the receiver after the message has been written through the
\* receive type
Received(a, cells, data) ==
    [f \in DOMAIN a |->
        IF \E k \in DOMAIN cells : cells[k] = f /\ k \in DOMAIN data
        THEN data[CHOOSE k \in DOMAIN cells : cells[k] = f /\ k \in DOMAIN data]
        ELSE a[f]]

\* MPI matches the receive posted for (rank_source, tag) with the oldest
\* message of that source and tag; the data lands in the receive window and
\* both requests complete
Deliver(r, disp) ==
    /\ rreq[r][disp] = "posted"
    /\ LET axis == hpc[r].axis
           info == topo[r].shift_info[<<axis, disp>>]
           key  == <<info.rank_source, r, Tag(disp)>>
       IN  /\ chan[key] # << >>
           /\ LET msg  == Head(chan[key])
                  data == IF msg.late
                          THEN Payload(info.rank_source, msg.axis, msg.disp)
                          ELSE msg.data
              IN  /\ arr'  = [arr EXCEPT ![r] =
                                 Received(@, RecvType(topo[r], axis, disp), data)]
                  /\ sreq' = IF msg.buffered THEN sreq
                             ELSE [sreq EXCEPT ![info.rank_source][msg.disp] = "done"]
           /\ chan' = [chan EXCEPT ![key] = Tail(@)]
    /\ rreq' = [rreq EXCEPT ![r][disp] = "done"]
    /\ UNCHANGED <<hround, topo, dirArg, hpc>>
    /\ UNCHANGED nonHaloVars

\* MPI may complete a send before it is received (the message is buffered):
\* the content is fixed at the latest now
SendBuffered(r, disp) ==
    /\ sreq[r][disp] = "posted"
    /\ LET axis == hpc[r].axis
           info == topo[r].shift_info[<<axis, disp>>]
           key  == <<r, info.rank_dest, Tag(disp)>>
           n    == Len(chan[key])
       IN  /\ n > 0 /\ ~chan[key][n].buffered
           /\ chan' = [chan EXCEPT ![key][n] =
                          [data |-> IF chan[key][n].late
                                    THEN Payload(r, axis, disp)
                                    ELSE chan[key][n].data,
                           axis |-> axis, disp |-> disp,
                           round |-> chan[key][n].round,
                           late |-> FALSE, buffered |-> TRUE]]
    /\ sreq' = [sreq EXCEPT ![r][disp] = "done"]
    /\ UNCHANGED <<hround, topo, dirArg, arr, hpc, rreq>>
    /\ UNCHANGED nonHaloVars

Returned(r) == hpc[r].step = 5

\* mutant: the call returns after the exchange of the first axis
WaitallFirstAxisOnly(r) ==
    /\ hpc[r].step = 4
    /\ \A d \in Disps : rreq[r][d] = "done" /\ sreq[r][d] = "done"
    /\ rreq' = [rreq EXCEPT ![r] = NoRequests]
    /\ sreq' = [sreq EXCEPT ![r] = NoRequests]
    /\ hpc'  = [hpc EXCEPT ![r] = [axis |-> @.axis, step |-> 5]]
    /\ UNCHANGED <<hround, topo, dirArg, arr, chan>>
    /\ UNCHANGED nonHaloVars

\* mutant: the call goes on without waiting for the requests
WaitallNoWait(r) ==
    /\ hpc[r].step = 4
    /\ rreq' = [rreq EXCEPT ![r] = NoRequests]
    /\ sreq' = [sreq EXCEPT ![r] = NoRequests]
    /\ hpc'  = [hpc EXCEPT ![r] =
                   IF dirArg = NoAxis /\ @.axis + 1 < NDim(topo[r].npts)
                   THEN [axis |-> @.axis + 1, step |-> 0]
                   ELSE [axis |-> @.axis, step |-> 5]]
    /\ UNCHANGED <<hround, topo, dirArg, arr, chan>>
    /\ UNCHANGED nonHaloVars

\* mutant: the call waits for its send requests only
WaitallSendsOnly(r) ==
    /\ hpc[r].step = 4
    /\ \A d \in Disps : sreq[r][d] = "done"
    /\ rreq' = [rreq EXCEPT ![r] = NoRequests]
    /\ sreq' = [sreq EXCEPT ![r] = NoRequests]
    /\ hpc'  = [hpc EXCEPT ![r] =
                   IF dirArg = NoAxis /\ @.axis + 1 < NDim(topo[r].npts)
                   THEN [axis |-> @.axis + 1, step |-> 0]
                   ELSE [axis |-> @.axis, step |-> 5]]
    /\ UNCHANGED <<hround, topo, dirArg, arr, chan>>
    /\ UNCHANGED nonHaloVars

\* line 1246 and lines 1208-1211: MPI.Request.Waitall( requests ) returns
\* when the four requests are complete; with direction omitted the next
\* axis follows, otherwise the call returns
Waitall(r) ==
    /\ hpc[r].step = 4
    /\ \A d \in Disps : rreq[r][d] = "done" /\ sreq[r][d] = "done"
    /\ rreq' = [rreq EXCEPT ![r] = NoRequests]
    /\ sreq' = [sreq EXCEPT ![r] = NoRequests]
    /\ hpc'  = [hpc EXCEPT ![r] =
                   IF dirArg = NoAxis /\ @.axis + 1 < NDim(topo[r].npts)
                   THEN [axis |-> @.axis + 1, step |-> 0]
                   ELSE [axis |-> @.axis, step |-> 5]]
    /\ UNCHANGED <<hround, topo, dirArg, arr, chan>>
    /\ UNCHANGED nonHaloVars

NextHalo ==
    \/ \E r \in HRanks : PostRecv(r)
    \/ \E r \in HRanks : PostSend(r)
    \/ \E r \in HRanks : \E d \in Disps : Deliver(r, d)
    \/ \E r \in HRanks : \E d \in Disps : SendBuffered(r, d)
    \/ \E r \in HRanks : Waitall(r)

SpecHalo == InitHalo /\ [][NextHalo]_vars

\* every process keeps running and MPI keeps delivering
FairSpecHalo == InitHaloFair /\ [][NextHalo]_vars /\ WF_vars(NextHalo)

\* update_ghost_regions on the grids of HaloArgsCorner
SpecHaloCorner == InitHaloCorner /\ [][NextHalo]_vars

\* update_ghost_regions on arrays with marked ghost cells
SpecHaloMarked == InitHaloMarked /\ [][NextHalo]_vars

\* the caller calls update_ghost_regions again on the same array, with the
\* same direction argument, up to MaxRounds calls per process
MaxRounds == 2

CallAgain(r) ==
    /\ Returned(r)
    /\ hround[r] + 1 < MaxRounds
    /\ hround' = [hround EXCEPT ![r] = @ + 1]
    /\ hpc' = [hpc EXCEPT ![r] = [axis |-> IF dirArg = NoAxis THEN 0 ELSE dirArg,
                                  step |-> 0]]
    /\ UNCHANGED <<topo, dirArg, arr, rreq, sreq, chan>>
    /\ UNCHANGED nonHaloVars

NextHaloRounds ==
    \/ \E r \in HRanks : PostRecv(r)
    \/ \E r \in HRanks : PostSend(r)
    \/ \E r \in HRanks : \E d \in Disps : Deliver(r, d)
    \/ \E r \in HRanks : \E d \in Disps : SendBuffered(r, d)
    \/ \E r \in HRanks : Waitall(r)
    \/ \E r \in HRanks : CallAgain(r)

SpecHaloRounds == InitHaloFair /\ [][NextHaloRounds]_vars

AllReturned == \A r \in HRanks : Returned(r)

\* ======================================================== claims, SpecHalo
\* the axes a call with the given direction argument exchanges
ExchangedAxes == IF dirArg = NoAxis THEN DOMAIN topo[0].npts ELSE {dirArg}

\* the global index along axis a that local index k stands for
GlobalAlong(c, a, k) == c.starts[a] - c.shifts[a] * c.pads[a] + k

\* the block (ownership coordinate) next to the block of c along axis a on
\* side sgn, or NoAxis when there is none
NeighbourBlock(c, a, sgn) ==
    LET t == c.coords[a] + sgn
    IN  IF c.periods[a] THEN t % c.dims[a]
        ELSE IF t < 0 \/ t >= c.dims[a] THEN NoAxis ELSE t

\* the process that owns the cell with the given global multi-index
OwnerRank(g) ==
    CHOOSE q \in HRanks :
        \A a \in DOMAIN g : topo[q].starts[a] <= g[a] /\ g[a] <= topo[q].ends[a]

C4_EveryCallReturns == <>AllReturned

\* all calls have returned on a periodic axis with two processes (both
\* neighbours of a process are the other process)
C4_Witness ==
    /\ AllReturned
    /\ topo[0].dims[0] = 2 /\ topo[0].periods[0]
    /\ topo[0].shift_info[<<0, 1>>].rank_dest = topo[0].shift_info[<<0, 0 - 1>>].rank_dest

\* C23: for every process with a neighbour along an axis and every disp,
\* the neighbour's receive for (axis, disp) comes from that process and the
\* two buf_shape are equal: shift*pad along the axis, the local extent with
\* ghost cells on every other axis; the send type selects as many cells as
\* the matching receive type, and every message in flight holds as many
\* elements as the receive type of its destination.
C23_BufShapesMatch ==
    /\ \A r \in HRanks : \A a \in DOMAIN topo[r].npts : \A disp \in Disps :
          LET c    == topo[r]
              info == c.shift_info[<<a, disp>>]
          IN  info.rank_dest # PROC_NULL =>
                LET q  == topo[info.rank_dest]
                    qi == q.shift_info[<<a, disp>>]
                IN  /\ qi.rank_source = r
                    /\ info.buf_shape = qi.buf_shape
                    /\ info.buf_shape[a] = c.shifts[a] * c.pads[a]
                    /\ \A b \in DOMAIN c.npts \ {a} :
                          /\ info.buf_shape[b]
                               = c.ends[b] - c.starts[b] + 1 + 2 * c.shifts[b] * c.pads[b]
                          /\ qi.buf_shape[b]
                               = q.ends[b] - q.starts[b] + 1 + 2 * q.shifts[b] * q.pads[b]
                    /\ NDim(SendType(c, a, disp)) = NDim(RecvType(q, a, disp))
    /\ \A key \in DOMAIN chan : \A n \in DOMAIN chan[key] :
          NDim(chan[key][n].data)
              = NDim(RecvType(topo[key[2]], chan[key][n].axis, chan[key][n].disp))

\* on a two-dimensional grid a process has received, from another process
\* whose local array has another shape, the message sent for the same disp
C23_Witness ==
    \E r \in HRanks : \E disp \in Disps :
        LET src == topo[r].shift_info[<<hpc[r].axis, disp>>].rank_source
        IN  /\ NDim(topo[r].npts) = 2
            /\ rreq[r][disp] = "done"
            /\ src # PROC_NULL /\ src # r
            /\ topo[src].shape # topo[r].shape
            /\ topo[src].shift_info[<<hpc[r].axis, disp>>].buf_shape[1 - hpc[r].axis] > 2

\* the four requests of the exchange of the current axis are complete
AllFourComplete(r) ==
    \A d \in Disps : rreq[r][d] = "done" /\ sreq[r][d] = "done"

\* a process that has posted a send has posted both receives
RecvsBeforeSends ==
    \A r \in HRanks :
        (\E d \in Disps : sreq[r][d] # "none") =>
            (\A d \in Disps : rreq[r][d] # "none")

\* a process leaves the exchange of an axis (for the next axis or for the
\* return) only with its four requests complete
LeavesAxisComplete ==
    \A r \in HRanks :
        (hpc[r].step # 5 /\ (hpc'[r].step = 5 \/ hpc'[r].axis # hpc[r].axis))
            => AllFourComplete(r)

\* C24: in the exchange of one axis both receives are posted before either
\* send, and the exchange is left only after the two receives and the two
\* sends have completed.
C24_RecvsThenSendsThenWait == []RecvsBeforeSends /\ [][LeavesAxisComplete]_vars

\* a process with a neighbour on both sides has returned while another
\* process is still inside the call
C24_Witness ==
    \E r \in HRanks : \E q \in HRanks :
        /\ Returned(r) /\ ~Returned(q)
        /\ \A d \in Disps :
              topo[r].shift_info[<<hpc[r].axis, d>>].rank_source \notin {PROC_NULL, r}

\* with direction omitted every process starts with axis 0
StartsWithAxis0 ==
    dirArg = NoAxis => \A r \in HRanks : hpc[r].axis = 0 /\ hpc[r].step = 0

\* with direction omitted: a process returns from the last axis, and every
\* message it has sent and whose send request is not complete belongs to
\* the axis it is exchanging
AxisInTurn ==
    dirArg = NoAxis =>
        \A r \in HRanks :
            /\ hpc[r].axis \in DOMAIN topo[r].npts
            /\ Returned(r) => hpc[r].axis = NDim(topo[r].npts) - 1
            /\ \A key \in DOMAIN chan : \A n \in DOMAIN chan[key] :
                  key[1] = r =>
                      /\ chan[key][n].axis <= hpc[r].axis
                      /\ ~chan[key][n].buffered =>
                            chan[key][n].axis = hpc[r].axis /\ ~Returned(r)

\* with direction omitted: the axis of a process changes only to the next
\* axis, with the four requests of the current axis complete, and the
\* requests of the next axis are then all still to be posted
NextAxisAfterCompletion ==
    dirArg = NoAxis =>
        \A r \in HRanks :
            hpc'[r].axis # hpc[r].axis =>
                /\ hpc'[r].axis = hpc[r].axis + 1
                /\ AllFourComplete(r)
                /\ hpc'[r].step = 0
                /\ rreq'[r] = NoRequests /\ sreq'[r] = NoRequests

\* C25: with direction omitted the one-axis exchange is run for the axes
\* 0, 1, ..., ndim-1 in this order, and a process posts no request of the
\* next axis before its four requests of the current axis have completed.
C25_AxesInTurn ==
    StartsWithAxis0 /\ []AxisInTurn /\ [][NextAxisAfterCompletion]_vars

\* direction omitted on a two-dimensional grid: every process has returned,
\* and process 0 has received from the other process along axis 0
C25_Witness ==
    /\ dirArg = NoAxis /\ NDim(topo[0].npts) = 2 /\ AllReturned
    /\ topo[0].dims[0] = 2
    /\ \E f \in DOMAIN arr[0] :
          arr[0][f] # Stale /\ ~IsOwned(topo[0], Unravel(f, topo[0].shape))

\* the global index of local cell i, wrapped on the periodic axes
WrappedGlobalIndex(c, i) ==
    [a \in DOMAIN c.npts |->
        IF c.periods[a] THEN GlobalIndexOf(c, i)[a] % c.npts[a]
        ELSE GlobalIndexOf(c, i)[a]]

\* the cell stands for a point of the grid
InGrid(c, g) == \A a \in DOMAIN c.npts : 0 <= g[a] /\ g[a] < c.npts[a]

\* a ghost cell along every axis
IsCorner(c, i) ==
    \A a \in DOMAIN c.npts :
        \/ i[a] < c.shifts[a] * c.pads[a]
        \/ i[a] >= c.shifts[a] * c.pads[a] + (c.ends[a] - c.starts[a] + 1)

\* every ghost cell of process r that stands for a point of the grid holds
\* the value its owner stored (the global C-order index of the point)
GhostsFilled(r) ==
    \A f \in DOMAIN arr[r] :
        LET c == topo[r]
            i == Unravel(f, c.shape)
            g == WrappedGlobalIndex(c, i)
        IN  (~IsOwned(c, i) /\ InGrid(c, g)) => arr[r][f] = Ravel(g, c.npts)

\* no corner cell of process r has been given its owner's value yet
CornersUnpopulated(r) ==
    \A f \in DOMAIN arr[r] :
        IsCorner(topo[r], Unravel(f, topo[r].shape)) => arr[r][f] = Stale

\* C26: on a grid with two axes or more, once update_ghost_regions with
\* direction omitted has returned on all processes, every ghost cell, the
\* corner cells included, holds the value of the owned cell of the process
\* that owns its (periodically wrapped) global index; while a process is
\* still exchanging an axis before the last, its corner cells are
\* unpopulated.
C26_AllGhostsAndCorners ==
    (dirArg = NoAxis /\ NDim(topo[0].npts) >= 2) =>
        /\ AllReturned => \A r \in HRanks : GhostsFilled(r)
        /\ \A r \in HRanks :
              hpc[r].axis < NDim(topo[r].npts) - 1 => CornersUnpopulated(r)

\* local index k along axis a lies in the ghost region on side sgn
GhostOnSide(c, a, k, sgn) ==
    IF sgn < 0 THEN k < c.shifts[a] * c.pads[a]
    ELSE k >= c.shifts[a] * c.pads[a] + (c.ends[a] - c.starts[a] + 1)

\* the process has a neighbour on side sgn of axis a: the source of the
\* receive that fills the ghost region of that side
HasNeighbour(c, a, sgn) ==
    c.shift_info[<<a, 0 - sgn>>].rank_source # PROC_NULL

\* the cell has the content it had before the call
Unchanged(r, f) == arr[r][f] = MarkedArray(r, topo[r])[f]

\* the process is at the end of side sgn of a non-periodic axis
AtBoundary(c, a, sgn) ==
    /\ ~c.periods[a]
    /\ c.coords[a] = (IF sgn < 0 THEN 0 ELSE c.dims[a] - 1)

\* C27 (as stated): every owned cell is unchanged, and on a non-periodic
\* axis every ghost cell of the first process facing the lower boundary and
\* of the last process facing the upper boundary is unchanged.
C27_AsStated ==
    \A r \in HRanks : \A f \in DOMAIN arr[r] :
        LET c == topo[r]
            i == Unravel(f, c.shape)
        IN  /\ IsOwned(c, i) => Unchanged(r, f)
            /\ \A a \in DOMAIN c.npts : \A sgn \in Disps :
                  (AtBoundary(c, a, sgn) /\ GhostOnSide(c, a, i[a], sgn))
                      => Unchanged(r, f)

\* C27 (amended): a cell is changed only if, along an exchanged axis, it is
\* a ghost cell on a side where the process has a neighbour. Hence every
\* owned cell is unchanged; the process at coordinate 0 (at the last
\* coordinate) of a non-periodic axis has no neighbour below (above), and
\* its ghost cells facing that boundary are unchanged unless they are also
\* ghost cells along another exchanged axis on a side with a neighbour.
C27_OnlyGhostsWithNeighbour ==
    \A r \in HRanks :
        LET c == topo[r] IN
        /\ \A a \in DOMAIN c.npts : \A sgn \in Disps :
              AtBoundary(c, a, sgn) => ~HasNeighbour(c, a, sgn)
        /\ \A f \in DOMAIN arr[r] :
              LET i == Unravel(f, c.shape)
              IN  /\ ~Unchanged(r, f) =>
                        \E a \in ExchangedAxes : \E sgn \in Disps :
                            GhostOnSide(c, a, i[a], sgn) /\ HasNeighbour(c, a, sgn)
                  /\ IsOwned(c, i) => Unchanged(r, f)
                  /\ \A a \in DOMAIN c.npts : \A sgn \in Disps :
                        ( /\ AtBoundary(c, a, sgn) /\ GhostOnSide(c, a, i[a], sgn)
                          /\ \A b \in ExchangedAxes \ {a} : \A t \in Disps :
                                ~(GhostOnSide(c, b, i[b], t) /\ HasNeighbour(c, b, t)) )
                            => Unchanged(r, f)

\* all processes have returned from an exchange over both axes of a grid
\* that is not periodic along axis 0: process 0 has received ghost cells
\* along axis 1, and its ghost cells facing the boundary of axis 0 that it
\* owns along axis 1 are as they were
C27_Witness ==
    /\ AllReturned /\ dirArg = NoAxis /\ NDim(topo[0].npts) = 2
    /\ AtBoundary(topo[0], 0, 0 - 1) /\ HasNeighbour(topo[0], 1, 1)
    /\ \E f \in DOMAIN arr[0] : ~Unchanged(0, f)
    /\ \E f \in DOMAIN arr[0] :
          /\ GhostOnSide(topo[0], 0, Unravel(f, topo[0].shape)[0], 0 - 1)
          /\ ~GhostOnSide(topo[0], 1, Unravel(f, topo[0].shape)[1], 0 - 1)
          /\ ~GhostOnSide(topo[0], 1, Unravel(f, topo[0].shape)[1], 1)
          /\ Unchanged(0, f)

\* both neighbours of process r along its current axis are one process
\* (another one on a periodic axis of two processes, itself on a periodic
\* axis of one process)
SameNeighbourBothSides(r) ==
    LET a == hpc[r].axis
    IN  /\ topo[r].shift_info[<<a, 1>>].rank_source # PROC_NULL
        /\ topo[r].shift_info[<<a, 1>>].rank_source =
              topo[r].shift_info[<<a, 0 - 1>>].rank_source

\* the step completes the receive of process r for displacement d
CompletesRecv(r, d) == rreq[r][d] = "posted" /\ rreq'[r][d] = "done"

\* the message that the receive of process r for displacement d takes
MatchedMessage(r, d) ==
    Head(chan[<<topo[r].shift_info[<<hpc[r].axis, d>>].rank_source, r, Tag(d)>>])

\* a receive takes a message sent with its own displacement, and writes the
\* lower ghost region for disp = +1, the upper one for disp = -1
RecvTakesOwnDisp ==
    \A r \in HRanks : \A d \in Disps :
        CompletesRecv(r, d) =>
            /\ MatchedMessage(r, d).disp = d
            /\ MatchedMessage(r, d).axis = hpc[r].axis
            /\ \A f \in DOMAIN arr[r] :
                  arr'[r][f] # arr[r][f] =>
                      GhostOnSide(topo[r], hpc[r].axis,
                                  Unravel(f, topo[r].shape)[hpc[r].axis], 0 - d)

TagsDistinct ==
    /\ \A d \in Disps : Tag(d) >= 0
    /\ Tag(0 - 1) # Tag(1)

\* C31: the tags are non-negative and differ for disp = -1 and disp = +1,
\* and a receive is matched by the send of the same tag: the data sent with
\* disp = +1 lands in the lower ghost region and the data sent with
\* disp = -1 in the upper one, also when both neighbours are one process.
C31_TagsSeparateDirections == []TagsDistinct /\ [][RecvTakesOwnDisp]_vars

\* a periodic axis of two processes: process 0 received both messages of
\* process 1, the point below its block in the lower ghost cell next to the
\* block and the point above its block in the upper one
C31_Witness ==
    /\ NDim(topo[0].npts) = 1 /\ topo[0].dims[0] = 2 /\ topo[0].periods[0]
    /\ SameNeighbourBothSides(0)
    /\ topo[0].shift_info[<<0, 1>>].rank_source = 1
    /\ rreq[0][1] = "done" /\ rreq[0][0 - 1] = "done"
    /\ LET c == topo[0]
           w == c.shifts[0] * c.pads[0]
           L == c.ends[0] - c.starts[0] + 1
       IN  /\ L >= w
           /\ arr[0][w - 1] = (c.starts[0] - 1) % c.npts[0]
           /\ arr[0][w + L] = (c.ends[0] + 1) % c.npts[0]
           /\ arr[0][w - 1] # arr[0][w + L]

\* the cells of a window of the local array that are owned cells
OwnedIn(c, cells) == {f \in Range(cells) : IsOwned(c, Unravel(f, c.shape))}

\* the windows of axis a: the send windows hold owned cells only, the
\* receive windows ghost cells only, and no send window meets a receive
\* window
WindowsApart(c, a) ==
    \A d \in Disps :
        /\ OwnedIn(c, SendType(c, a, d)) = Range(SendType(c, a, d))
        /\ OwnedIn(c, RecvType(c, a, d)) = {}
        /\ \A e \in Disps :
              Range(SendType(c, a, d)) \cap Range(RecvType(c, a, e)) = {}

\* no cell is read by a pending send and written by a pending receive
NoCellSentAndReceived ==
    \A r \in HRanks : \A d \in Disps : \A e \in Disps :
        (sreq[r][d] = "posted" /\ rreq[r][e] = "posted") =>
            Range(SendType(topo[r], hpc[r].axis, d))
                \cap Range(RecvType(topo[r], hpc[r].axis, e)) = {}

\* C33: for every axis and both directions the send window lies inside the
\* owned region and is disjoint from both receive windows, which lie inside
\* the ghost regions: no cell is at once the source of a pending send and
\* the target of a pending receive, for every block the decomposition can
\* produce, blocks shorter than shift*pad included.
C33_SendAndRecvWindowsDisjoint ==
    /\ \A r \in HRanks : \A a \in DOMAIN topo[r].npts : WindowsApart(topo[r], a)
    /\ NoCellSentAndReceived

\* a receive takes the message sent to it for the same axis in the same
\* round (the same call, counted per process)
RecvTakesOwnRound ==
    \A r \in HRanks : \A d \in Disps :
        CompletesRecv(r, d) =>
            /\ MatchedMessage(r, d).axis  = hpc[r].axis
            /\ MatchedMessage(r, d).round = hround[r]
            /\ MatchedMessage(r, d).disp  = d

\* when every process has returned from its last call no message is left
NothingLeftOver ==
    (\A r \in HRanks : Returned(r) /\ hround[r] = MaxRounds - 1) =>
        \A key \in DOMAIN chan : chan[key] = << >>

\* C34: processes running at different speeds through the axes and through
\* repeated calls of update_ghost_regions reuse the same two tags, yet a
\* message sent for axis a in round k is taken only by the receive its
\* destination posted for axis a in its round k.
C34_RoundsAndAxesNotMixed == []NothingLeftOver /\ [][RecvTakesOwnRound]_vars

\* a process is one round ahead: its message of the second round waits
\* behind its message of the first round, which the destination, still in
\* its first round, has yet to receive
C34_Witness ==
    \E key \in DOMAIN chan :
        /\ Len(chan[key]) = 2
        /\ chan[key][1].round = 0 /\ chan[key][2].round = 1
        /\ key[1] # key[2]
        /\ hround[key[1]] = 1 /\ hround[key[2]] = 0
        /\ rreq[key[2]][chan[key][1].disp] = "posted"

\* ======================================================================
\* InterfacesCartDecomposition.__init__ on every rank of the pool
\* ======================================================================
MaxPool == 4

\* every patch of the scenarios: a 4 x 4 grid, pads 1, multiplicity 1
PatchNpts == Vec(<<4, 4>>)
PatchPads == Vec(<<1, 1>>)

RECURSIVE SumUpTo(_, _)
SumUpTo(f, n) == IF n = 0 THEN 0 ELSE f[n - 1] + SumUpTo(f, n - 1)

\* psydac.ddm.partition.partition_procs_per_patch( npts, size ): the sizes
\* of the sub-pools, one non-empty sub-pool per patch, that add up to size
PartitionSizes(np, size) ==
    {sz \in [0..(np - 1) -> 1..size] : SumUpTo(sz, np) = size}

\* ... and the rank ranges [first, last] they give, contiguous from rank 0
RankRangesOf(sz) ==
    [i \in DOMAIN sz |-> <<SumUpTo(sz, i), SumUpTo(sz, i + 1) - 1>>]

\* one entry of the interfaces dictionary: (i, j) : ((axis, axis), (ext, ext))
Interface(i, j, axis, ext_minus, ext_plus) ==
    [i |-> i, j |-> j, axis |-> axis,
     ext_minus |-> ext_minus, ext_plus |-> ext_plus]

\* the keys of the interfaces dictionary, in insertion order
InterfaceKeys(np) ==
    IF np = 2 THEN {<< <<0, 1>> >>}
    ELSE {<< <<0, 1>>, <<1, 2>> >>,
          << <<0, 1>>, <<1, 2>>, <<0, 2>> >>}

Exts == {<<1, 0 - 1>>, <<0 - 1, 0 - 1>>}

\* A MultiCartDecomposition (rank ranges, process grid of every patch) and
\* an interfaces dictionary, the same on every rank.
IfaceScenarios ==
    UNION {
      UNION {
        {[rank_ranges |-> RankRangesOf(sz),
          nprocs      |-> d,
          interfaces  |-> [k \in DOMAIN keys |->
                             Interface(keys[k][1], keys[k][2], axis,
                                       e[1], e[2])]] :
            d \in {dd \in [0..(np - 1) -> [0..1 -> 1..size]] :
                     \A i \in 0..(np - 1) :
                        dd[i] \in ValidDims(sz[i], PatchNpts, PatchPads)},
            keys \in InterfaceKeys(np),
            axis \in IF np = 2 THEN 0..1 ELSE {0},
            e \in Exts} :
        sz \in PartitionSizes(np, size)} :
      np \in 2..3, size \in 2..MaxPool}

PoolRanks == DOMAIN ipc

\* None in local_groups and local_communicators (a group is never empty)
NoGroup == {}

\* lines 77-81: the patches whose rank range holds the rank
OwnedGroups(r) ==
    {i \in DOMAIN scen.rank_ranges :
        scen.rank_ranges[i][1] <= r /\ r <= scen.rank_ranges[i][2]}

\* global_group.Range_incl([[first, last, 1]]), as the set of pool ranks
LocalGroup(i) == scen.rank_ranges[i][1] .. scen.rank_ranges[i][2]

\* local_groups[i].Union(local_groups[i], local_groups[j])
InterfaceGroup(k) ==
    LocalGroup(scen.interfaces[k].i) \cup LocalGroup(scen.interfaces[k].j)

\* the first rank of a patch's group, which Translate_ranks(.., [0], ..)
\* names inside the interface communicator
RootRank(i) == scen.rank_ranges[i][1]

RECURSIVE SortedSeq(_)
SortedSeq(S) ==
    IF S = {} THEN << >>
    ELSE LET m == CHOOSE x \in S : \A y \in S : x <= y
         IN  <<m>> \o SortedSeq(S \ {m})

\* rank_from_coords[index].ravel() with index[axis] = 0 or -1: the ranks of
\* the patch's process grid on the interface, in increasing order
BoundaryRanks(dims, axis, ext) ==
    SortedSeq({l \in 0..(Product(dims) - 1) :
        Unravel(l, dims)[axis] = IF ext = 0 - 1 THEN 0 ELSE dims[axis] - 1})

\* local_groups[.].Incl(boundary_ranks), as the set of pool ranks
BoundaryGroup(i, axis, ext) ==
    {RootRank(i) + BoundaryRanks(scen.nprocs[i], axis, ext)[n] :
        n \in 1..Len(BoundaryRanks(scen.nprocs[i], axis, ext))}

BoundaryGroupMinus(k) ==
    BoundaryGroup(scen.interfaces[k].i, scen.interfaces[k].axis,
                  scen.interfaces[k].ext_minus)

BoundaryGroupPlus(k) ==
    BoundaryGroup(scen.interfaces[k].j, scen.interfaces[k].axis,
                  scen.interfaces[k].ext_plus)

\* root_minus, root_plus: the first rank of each boundary group
RootOf(G) == CHOOSE x \in G : \A y \in G : x <= y

\* The MultiCartDecomposition the rank passes to the constructor, as
\* MultiCartDecomposition.__init__ left it (lines 89-92); a topology is
\* represented by its process grid.
MultiCartOf(r) ==
    [rank_ranges  |-> scen.rank_ranges,
     owned_groups |-> OwnedGroups(r),
     local_groups |-> [i \in DOMAIN scen.rank_ranges |->
                         IF i \in OwnedGroups(r) THEN LocalGroup(i) ELSE NoGroup],
     local_communicators |-> [i \in DOMAIN scen.rank_ranges |->
                         IF i \in OwnedGroups(r) THEN LocalGroup(i) ELSE NoGroup],
     carts        |-> [i \in DOMAIN scen.rank_ranges |->
                         IF i \in OwnedGroups(r) THEN scen.nprocs[i] ELSE NoDims]]

\* mutant: the ranks that do not own patch 0 walk the dictionary backwards
InterfacesOrderReversed(r) ==
    LET all == [k \in 1..Len(scen.interfaces) |-> k]
        own == SelectSeq(all, LAMBDA k : r \in InterfaceGroup(k))
    IN  IF 0 \in OwnedGroups(r) THEN own
        ELSE [n \in 1..Len(own) |-> own[Len(own) + 1 - n]]

\* "for i,j in interfaces: if i in owned_groups or j in owned_groups": the
\* interfaces the rank takes part in, in the order of the dictionary
InterfacesOrder(r) ==
    LET all == [k \in 1..Len(scen.interfaces) |-> k]
    IN  SelectSeq(all, LAMBDA k : r \in InterfaceGroup(k))

\* the calls of the second loop for one interface, in program order
Calls ==
    <<"Isend_Irecv", "Waitall", "Bcast", "Create_group_minus",
      "Create_group_plus", "Create_intercomm">>

IsRoot(r, k) ==
    r \in {RootRank(scen.interfaces[k].i), RootRank(scen.interfaces[k].j)}

OtherRoot(r, k) ==
    IF r = RootRank(scen.interfaces[k].i) THEN RootRank(scen.interfaces[k].j)
    ELSE RootRank(scen.interfaces[k].i)

\* mutant: the intercommunicator is created whatever the two roots are
ParticipantsNoRootCheck(r, call, k) ==
    CASE call = "Create_group"       -> InterfaceGroup(k)
      [] call = "Bcast"              ->
            UNION {LocalGroup(i) : i \in OwnedGroups(r) \cap
                      {scen.interfaces[k].i, scen.interfaces[k].j}}
      [] call = "Create_group_minus" ->
            IF r \in BoundaryGroupMinus(k) THEN BoundaryGroupMinus(k) ELSE {}
      [] call = "Create_group_plus"  ->
            IF r \in BoundaryGroupPlus(k) THEN BoundaryGroupPlus(k) ELSE {}
      [] call = "Create_intercomm"   ->
            IF r \in BoundaryGroupMinus(k) \cup BoundaryGroupPlus(k)
            THEN BoundaryGroupMinus(k) \cup BoundaryGroupPlus(k)
            ELSE {}
      [] OTHER                       -> {}

\* The ranks a call synchronises with: a collective returns once all its
\* participants have made it; Create_group with a group the rank is not in
\* returns COMM_NULL at once.
Participants(r, call, k) ==
    CASE call = "Create_group"       -> InterfaceGroup(k)
      [] call = "Bcast"              ->
            UNION {LocalGroup(i) : i \in OwnedGroups(r) \cap
                      {scen.interfaces[k].i, scen.interfaces[k].j}}
      [] call = "Create_group_minus" ->
            IF r \in BoundaryGroupMinus(k) THEN BoundaryGroupMinus(k) ELSE {}
      [] call = "Create_group_plus"  ->
            IF r \in BoundaryGroupPlus(k) THEN BoundaryGroupPlus(k) ELSE {}
      [] call = "Create_intercomm"   ->
            IF /\ RootOf(BoundaryGroupMinus(k)) # RootOf(BoundaryGroupPlus(k))
               /\ r \in BoundaryGroupMinus(k) \cup BoundaryGroupPlus(k)
            THEN BoundaryGroupMinus(k) \cup BoundaryGroupPlus(k)
            ELSE {}
      [] OTHER                       -> {}

\* MPI.Request.Waitall(requests) on a root: its Irecv completes when the
\* other root has posted the Isend, its Isend at the latest when the other
\* root has posted the Irecv; both are posted by the other root's
\* Isend_Irecv step.  On the other ranks the request list is empty.
Peers(r, call, k) ==
    IF call = "Waitall" /\ IsRoot(r, k) THEN {OtherRoot(r, k)} ELSE {}

Op(r, call, k) ==
    [call |-> call, k |-> k,
     participants |-> Participants(r, call, k),
     peers        |-> Peers(r, call, k)]

\* The constructor as the rank's sequence of communication calls: the first
\* loop creates the interface communicators, the second loop posts the
\* root-to-root messages and builds one InterfaceCartDecomposition each.
Program(r) ==
    LET ord == InterfacesOrder(r)
        n1  == Len(ord)
    IN  [n \in 1..n1 |-> Op(r, "Create_group", ord[n])]
        \o
        [n \in 1..(n1 * Len(Calls)) |->
            Op(r, Calls[((n - 1) % Len(Calls)) + 1],
                  ord[((n - 1) \div Len(Calls)) + 1])]

IctorDone(r) == ipc[r] > Len(prog[r])

\* rank q has made the call (it is inside it or past it)
Entered(q, call, k) ==
    \E n \in 1..Len(prog[q]) :
        /\ prog[q][n].call = call /\ prog[q][n].k = k
        /\ ipc[q] > n \/ (ipc[q] = n /\ inside[q])

\* rank q has returned from the call
Passed(q, call, k) ==
    \E n \in 1..Len(prog[q]) :
        prog[q][n].call = call /\ prog[q][n].k = k /\ ipc[q] > n

CanReturn(r, op) ==
    /\ \A q \in op.participants : Entered(q, op.call, op.k)
    /\ \A q \in op.peers : Passed(q, "Isend_Irecv", op.k)

\* a call that waits for no other rank returns at once
Blocking(op) == op.participants # {} \/ op.peers # {}

\* line 715: carts.carts[i].ranks_in_topo, the rank in the patch's
\* communicator of every Cartesian rank.  Create_cart may renumber the
\* ranks; the tables of the odd patches are taken reversed, so that the
\* tables of the two sides of an interface differ.
RanksInTopo(i) ==
    LET size == Cardinality(LocalGroup(i))
    IN  [c \in 0..(size - 1) |-> IF i % 2 = 1 THEN size - 1 - c ELSE c]

\* np.full(local_groups[i].size, -1)
Placeholder(i) == [c \in 0..(Cardinality(LocalGroup(i)) - 1) |-> 0 - 1]

\* lines 194-195: [ranks_in_topo_i, ranks_in_topo_j] on rank r
TablesAtStart(r, k) ==
    LET i == scen.interfaces[k].i
        j == scen.interfaces[k].j
    IN  << IF i \in OwnedGroups(r) THEN RanksInTopo(i) ELSE Placeholder(i),
           IF j \in OwnedGroups(r) THEN RanksInTopo(j) ELSE Placeholder(j) >>

\* line 190: tag = lambda i,j,disp: (2+disp)*(i+j)
IfaceTag(i, j, disp) == (2 + disp) * (i + j)

\* lines 197-203: the Isend calls of rank r for interface k, the buffers
\* being those of lines 194-195
IsendsOf(r, k) ==
    LET i == scen.interfaces[k].i
        j == scen.interfaces[k].j
        t == TablesAtStart(r, k)
    IN  (IF r = RootRank(i)
         THEN << [k |-> k, dest |-> RootRank(j), tag |-> IfaceTag(i, j, 1),
                  data |-> t[1]] >>
         ELSE << >>)
        \o
        (IF r = RootRank(j)
         THEN << [k |-> k, dest |-> RootRank(i), tag |-> IfaceTag(i, j, 0 - 1),
                  data |-> t[2]] >>
         ELSE << >>)

\* lines 199, 203: the sides whose table rank r receives (1: i, 2: j)
IrecvSides(r, k) ==
    (IF r = RootRank(scen.interfaces[k].i) THEN {2} ELSE {})
    \cup (IF r = RootRank(scen.interfaces[k].j) THEN {1} ELSE {})

\* the source of the Irecv into the table of `side` and its tag
IrecvSource(k, side) ==
    IF side = 2 THEN RootRank(scen.interfaces[k].j)
    ELSE RootRank(scen.interfaces[k].i)

IrecvTag(k, side) ==
    IfaceTag(scen.interfaces[k].i, scen.interfaces[k].j,
             IF side = 2 THEN 0 - 1 ELSE 1)

\* the messages posted for rank r that match its Irecv for interface k
\* into the table of `side`
Matching(r, k, side) ==
    SelectSeq(posted[IrecvSource(k, side)],
              LAMBDA m : m.k = k /\ m.dest = r /\ m.tag = IrecvTag(k, side))

\* mutant: the receive buffer is read before the request is complete
BufferNotAwaited(buf, data) == buf

\* line 284: MPI.Request.Waitall(requests): the Irecv buffer holds the
\* data of the matching message
BufferAfterWaitall(buf, data) == data

\* lines 286-290: the sides whose table the rank gets by Bcast: j's table
\* in the communicator of i, i's table in the communicator of j
BcastSides(r, k) ==
    (IF scen.interfaces[k].i \in OwnedGroups(r) THEN {2} ELSE {})
    \cup (IF scen.interfaces[k].j \in OwnedGroups(r) THEN {1} ELSE {})

\* root=0 of the communicator in which the table of `side` is broadcast
BcastRoot(k, side) ==
    IF side = 2 THEN RootRank(scen.interfaces[k].i)
    ELSE RootRank(scen.interfaces[k].j)

\* the tables of rank r for interface k after Waitall
TablesAfterWaitall(r, k) ==
    [side \in 1..2 |->
        IF side \in IrecvSides(r, k)
        THEN BufferAfterWaitall(ranks_in_topo[r][k][side],
                                Matching(r, k, side)[1].data)
        ELSE ranks_in_topo[r][k][side]]

\* the tables of rank r for interface k after the two Bcast calls
TablesAfterBcast(r, k) ==
    [side \in 1..2 |->
        IF side \in BcastSides(r, k) /\ r # BcastRoot(k, side)
        THEN ranks_in_topo[BcastRoot(k, side)][k][side]
        ELSE ranks_in_topo[r][k][side]]

\* mutant: a missing group is left as None
RangeInclNever(g, i) == g

\* lines 179-182: "if not local_groups[i]: local_groups[i] =
\* global_group.Range_incl(...)", local_groups being carts.local_groups
RangeInclIfNone(g, i) == IF g = NoGroup THEN LocalGroup(i) ELSE g

\* lines 160-185: what the first loop does to the MultiCartDecomposition
\* for interface k, before it calls Create_group
CartsAfterGroups(r, k) ==
    [carts[r] EXCEPT !.local_groups = [x \in DOMAIN @ |->
        IF x \in {scen.interfaces[k].i, scen.interfaces[k].j}
        THEN RangeInclIfNone(carts[r].local_groups[x], x)
        ELSE carts[r].local_groups[x]]]

\* start_update_ghost_regions has not been called
NotStarted == [side |-> "", ret |-> ""]

\* the constructor is entered on every rank of the pool
InitIctorOn(scenarios) ==
    /\ scen \in scenarios
    /\ ipc = [r \in 0..(scen.rank_ranges[NDim(scen.rank_ranges) - 1][2]) |-> 1]
    /\ prog = [r \in DOMAIN ipc |-> Program(r)]
    /\ inside = [r \in DOMAIN ipc |-> FALSE]
    /\ carts = [r \in DOMAIN ipc |-> MultiCartOf(r)]
    /\ ranks_in_topo = [r \in DOMAIN ipc |->
                           [k \in 1..Len(scen.interfaces) |-> << >>]]
    /\ posted = [r \in DOMAIN ipc |-> << >>]
    /\ intercomm = [r \in DOMAIN ipc |->
                       [k \in 1..Len(scen.interfaces) |-> NoGroup]]
    /\ started = [r \in DOMAIN ipc |->
                     [k \in 1..Len(scen.interfaces) |-> NotStarted]]
    /\ IdleCart /\ IdleHalo /\ IdleXchg /\ IdleMulti /\ IdleReduce /\ IdleArrays

\* the rank makes the next call of its constructor
Call(r) ==
    /\ ~IctorDone(r) /\ ~inside[r]
    /\ IF Blocking(prog[r][ipc[r]])
       THEN inside' = [inside EXCEPT ![r] = TRUE] /\ UNCHANGED ipc
       ELSE ipc' = [ipc EXCEPT ![r] = @ + 1] /\ UNCHANGED inside
    /\ carts' = IF prog[r][ipc[r]].call = "Create_group"
                THEN [carts EXCEPT ![r] = CartsAfterGroups(r, prog[r][ipc[r]].k)]
                ELSE carts
    /\ IF prog[r][ipc[r]].call = "Isend_Irecv"
       THEN /\ ranks_in_topo' = [ranks_in_topo EXCEPT
                  ![r][prog[r][ipc[r]].k] = TablesAtStart(r, prog[r][ipc[r]].k)]
            /\ posted' = [posted EXCEPT
                  ![r] = @ \o IsendsOf(r, prog[r][ipc[r]].k)]
       ELSE UNCHANGED <<ranks_in_topo, posted>>
    /\ UNCHANGED <<scen, prog, intercomm, started>>
    /\ UNCHANGED nonIctorVars

\* the call returns
Return(r) ==
    /\ ~IctorDone(r) /\ inside[r]
    /\ CanReturn(r, prog[r][ipc[r]])
    /\ ipc' = [ipc EXCEPT ![r] = @ + 1]
    /\ inside' = [inside EXCEPT ![r] = FALSE]
    /\ LET op == prog[r][ipc[r]]
       IN  ranks_in_topo' =
             IF op.call = "Waitall"
             THEN [ranks_in_topo EXCEPT ![r][op.k] = TablesAfterWaitall(r, op.k)]
             ELSE IF op.call = "Bcast"
             THEN [ranks_in_topo EXCEPT ![r][op.k] = TablesAfterBcast(r, op.k)]
             ELSE ranks_in_topo
    /\ intercomm' = IF prog[r][ipc[r]].call = "Create_intercomm"
                    THEN [intercomm EXCEPT ![r][prog[r][ipc[r]].k] =
                             prog[r][ipc[r]].participants]
                    ELSE intercomm
    /\ UNCHANGED <<scen, prog, carts, posted, started>>
    /\ UNCHANGED nonIctorVars

NextIctor ==
    \/ \E r \in PoolRanks : Call(r)
    \/ \E r \in PoolRanks : Return(r)

InitIctor == InitIctorOn(IfaceScenarios)

SpecIctor == InitIctor /\ [][NextIctor]_vars

\* two patches of the same grid on the same ranks ("ranks shared"): the
\* rank ranges coincide and, the arguments of compute_dims being the same,
\* so do the process grids
SharedScenarios ==
    UNION {
      {[rank_ranges |-> [i \in 0..1 |-> <<0, size - 1>>],
        nprocs      |-> [i \in 0..1 |-> d],
        interfaces  |-> << Interface(0, 1, axis, e[1], e[2]) >>] :
          d \in ValidDims(size, PatchNpts, PatchPads),
          axis \in 0..1, e \in Exts} :
      size \in 1..MaxPool}

InitIctorShared == InitIctorOn(IfaceScenarios \cup SharedScenarios)

\* the constructor on pools whose patches have their own ranks or share
\* all of them
SpecIctorShared == InitIctorShared /\ [][NextIctor]_vars

\* "self._local_rank_minus = None ... if self._local_comm_minus:
\* self._local_rank_minus = self._local_comm_minus.rank": whether the
\* rank has a local rank in patch i (it is None where the communicator
\* of the patch is null)
HasLocalRank(r, i) == carts[r].local_communicators[i] # NoGroup

\* "intercomm = cart._intercomm; if cart._local_rank_minus is not None:
\* req = intercomm.Iallgatherv(...) elif cart._local_rank_plus is not None:
\* req = intercomm.Iallgatherv(...); return req": the side the rank sends
\* for and what the call gives; Iallgatherv is an attribute of a
\* communicator, and self._intercomm is None where none was created
StartUpdateGhostRegionsBody(r, k) ==
    LET side == IF HasLocalRank(r, scen.interfaces[k].i) THEN "minus"
                ELSE IF HasLocalRank(r, scen.interfaces[k].j) THEN "plus"
                ELSE "none"
    IN  [side |-> side,
         ret  |-> IF side = "none" THEN "UnboundLocalError"
                  ELSE IF intercomm[r][k] = NoGroup THEN "AttributeError"
                  ELSE "request"]

\* a rank that has constructed its interface topologies calls
\* start_update_ghost_regions on the exchanger of interface k
StartUpdateGhostRegions(r, k) ==
    /\ IctorDone(r)
    /\ r \in InterfaceGroup(k)
    /\ started[r][k] = NotStarted
    /\ started' = [started EXCEPT ![r][k] = StartUpdateGhostRegionsBody(r, k)]
    /\ UNCHANGED <<scen, prog, ipc, inside, carts, ranks_in_topo, posted,
                   intercomm>>
    /\ UNCHANGED nonIctorVars

NextIctorStart ==
    \/ \E r \in PoolRanks : Call(r)
    \/ \E r \in PoolRanks : Return(r)
    \/ \E r \in PoolRanks : \E k \in 1..Len(scen.interfaces) :
          StartUpdateGhostRegions(r, k)

\* the constructor on every rank of the pool, then the start of the
\* exchange on every rank that holds an interface topology
SpecIctorStart == InitIctorShared /\ [][NextIctorStart]_vars

\* ------------------------------------------------------------- claims
AllIctorDone == \A r \in PoolRanks : IctorDone(r)

\* C5: whenever some rank has not finished constructing its
\* InterfacesCartDecomposition, some rank can make or return from a call:
\* no state in which the unfinished ranks all wait for each other is
\* reachable, so (every step advancing one rank through its finite program)
\* every construction terminates.
C5_NoDeadlock == scen # << >> => (AllIctorDone \/ ENABLED NextIctor)

\* three patches, three interfaces sharing all of them, all built
C5_Witness ==
    /\ scen # << >>
    /\ NDim(scen.rank_ranges) = 3 /\ Len(scen.interfaces) = 3
    /\ AllIctorDone

\* C15 as stated: constructing an InterfacesCartDecomposition leaves the
\* MultiCartDecomposition as it was (local_groups[k] stays None for every
\* patch the rank does not own)
C15_AsStated ==
    \A r \in PoolRanks : carts[r] = MultiCartOf(r)

\* the first loop of the constructor has handled an interface with side x
\* on rank r
GroupFilled(r, x) ==
    \E k \in 1..Len(scen.interfaces) :
        /\ x \in {scen.interfaces[k].i, scen.interfaces[k].j}
        /\ r \in InterfaceGroup(k)
        /\ Entered(r, "Create_group", k)

\* C15 (amended): constructing an InterfacesCartDecomposition leaves
\* rank_ranges, owned_groups, local_communicators and carts of the
\* MultiCartDecomposition unchanged, and changes local_groups in one way
\* only: local_groups[x] of a patch x the rank does not own becomes the
\* group of x's rank range as soon as the constructor handles an interface
\* of x that the rank takes part in; it stays None for the other patches.
C15_OnlyLocalGroupsFilled ==
    \A r \in PoolRanks :
        /\ carts[r].rank_ranges = MultiCartOf(r).rank_ranges
        /\ carts[r].owned_groups = MultiCartOf(r).owned_groups
        /\ carts[r].local_communicators = MultiCartOf(r).local_communicators
        /\ carts[r].carts = MultiCartOf(r).carts
        /\ \A x \in DOMAIN scen.rank_ranges :
              carts[r].local_groups[x] =
                 IF x \in OwnedGroups(r) \/ GroupFilled(r, x)
                 THEN LocalGroup(x) ELSE NoGroup

\* all ranks are done; a rank holds the group of a patch it does not own,
\* and None for another patch it does not own
C15_Witness ==
    /\ scen # << >> /\ AllIctorDone
    /\ \E r \in PoolRanks : \E x, y \in DOMAIN scen.rank_ranges :
          /\ x \notin OwnedGroups(r) /\ y \notin OwnedGroups(r)
          /\ carts[r].local_groups[x] = LocalGroup(x)
          /\ carts[r].local_groups[y] = NoGroup

\* the InterfaceCartDecomposition of interface k is constructed on all
\* ranks of the interface communicator
IfaceConstructed(k) ==
    \A q \in InterfaceGroup(k) : Passed(q, "Create_intercomm", k)

\* the messages rank r posted for interface k
PostedFor(r, k) == SelectSeq(posted[r], LAMBDA m : m.k = k)

BothTables(k) ==
    <<RanksInTopo(scen.interfaces[k].i), RanksInTopo(scen.interfaces[k].j)>>

\* C19: once the InterfaceCartDecomposition of (i,j) is constructed on all
\* ranks of the interface communicator, every owner of i holds j's
\* complete ranks_in_topo, equal to the table j's owners hold, and vice
\* versa; each root sends its table exactly once, to the other root, and a
\* root enters the broadcast only with the received table in its buffer.
C19_TablesExchanged ==
    scen # << >> =>
      \A k \in 1..Len(scen.interfaces) :
        /\ IfaceConstructed(k) =>
              \A r \in InterfaceGroup(k) :
                 /\ ranks_in_topo[r][k] = BothTables(k)
                 /\ \A side \in 1..2 : \A c \in DOMAIN ranks_in_topo[r][k][side] :
                       ranks_in_topo[r][k][side][c] >= 0
        /\ \A r \in PoolRanks :
              /\ Len(PostedFor(r, k)) =
                    IF Entered(r, "Isend_Irecv", k)
                    THEN Cardinality(IrecvSides(r, k)) ELSE 0
              /\ \A n \in 1..Len(PostedFor(r, k)) :
                    /\ PostedFor(r, k)[n].dest = OtherRoot(r, k)
                    /\ \A n2 \in 1..Len(PostedFor(r, k)) :
                          n2 # n => PostedFor(r, k)[n2].tag # PostedFor(r, k)[n].tag
              /\ (IsRoot(r, k) /\ Entered(r, "Bcast", k)) =>
                    ranks_in_topo[r][k] = BothTables(k)

\* an interface between two patches of two ranks each is constructed: the
\* second rank of each patch got the other patch's table by broadcast
C19_Witness ==
    /\ scen # << >> /\ AllIctorDone
    /\ \E k \in 1..Len(scen.interfaces) :
          /\ Cardinality(LocalGroup(scen.interfaces[k].i)) = 2
          /\ Cardinality(LocalGroup(scen.interfaces[k].j)) = 2
          /\ IfaceConstructed(k)
          /\ \E r \in LocalGroup(scen.interfaces[k].i) :
                /\ r # RootRank(scen.interfaces[k].i)
                /\ ranks_in_topo[r][k][2] = RanksInTopo(scen.interfaces[k].j)
                /\ ranks_in_topo[r][k][2] # ranks_in_topo[r][k][1]

\* root_minus != root_plus (line 328): the first ranks of the two boundary
\* groups differ
RootsDiffer(k) ==
    RootOf(BoundaryGroupMinus(k)) # RootOf(BoundaryGroupPlus(k))

\* C20: for a constructed interface (i,j), if the root ranks of the two
\* sides differ, the communicator that crosses the patches exists, on
\* the boundary ranks of both sides and joining them; if the root ranks
\* coincide (the patches share their ranks), intercomm is None on every
\* rank.
C20_IntercommIffRootsDiffer ==
    scen # << >> =>
      \A k \in 1..Len(scen.interfaces) : IfaceConstructed(k) =>
        /\ RootsDiffer(k) =>
              /\ \A r \in BoundaryGroupMinus(k) \cup BoundaryGroupPlus(k) :
                    intercomm[r][k] =
                       BoundaryGroupMinus(k) \cup BoundaryGroupPlus(k)
              /\ \A r \in InterfaceGroup(k) :
                    r \notin BoundaryGroupMinus(k) \cup BoundaryGroupPlus(k)
                       => intercomm[r][k] = NoGroup
        /\ ~RootsDiffer(k) =>
              \A r \in InterfaceGroup(k) : intercomm[r][k] = NoGroup

\* two patches share two ranks, the roots of the two sides coincide and
\* the interface is constructed without an intercommunicator
C20_Witness ==
    /\ scen # << >> /\ AllIctorDone
    /\ scen.rank_ranges[0] = scen.rank_ranges[1]
    /\ Cardinality(PoolRanks) >= 2
    /\ ~RootsDiffer(1) /\ IfaceConstructed(1)
    /\ \A r \in PoolRanks : intercomm[r][1] = NoGroup

\* C37: start_update_ghost_regions succeeds and returns a request handle
\* on every rank that holds an interface topology and its exchanger, the
\* ranks without an intercommunicator included (those outside both boundary
\* groups, and all ranks when the two roots coincide); a rank that owns
\* both sides takes part as a minus-side rank
C37_StartReturnsRequestEverywhere ==
    \A r \in PoolRanks : \A k \in 1..Len(scen.interfaces) :
        started[r][k] # NotStarted =>
            /\ started[r][k].ret = "request"
            /\ (HasLocalRank(r, scen.interfaces[k].i)
                   => started[r][k].side = "minus")

\* the part of C37 the code keeps: the side is minus on a rank of the minus
\* patch, and the request is returned where the intercommunicator exists
StartWhereIntercommExists ==
    \A r \in PoolRanks : \A k \in 1..Len(scen.interfaces) :
        started[r][k] # NotStarted =>
            /\ (started[r][k].ret = "request") = (intercomm[r][k] # NoGroup)
            /\ (HasLocalRank(r, scen.interfaces[k].i)
                   => started[r][k].side = "minus")
            /\ started[r][k].side # "none"

\* ======================================================================
\* InterfaceCartDecomposition._compute_communication_infos and
\* InterfaceCartDataExchanger on the boundary ranks of one interface
\* ======================================================================

\* One side of the interface as InterfaceCartDecomposition.__init__ holds
\* it (lines 279-282, 292-310, 343-396): the patch's grid, its process
\* grid, its start/end tables and its boundary ranks.
MakeSide(npts, pads, shifts, nprocs, axis, ext) ==
    LET ax  == DOMAIN npts
        rn  == [a \in ax |-> ReducedNpts(npts[a], shifts[a], pads[a])]
        rgs == [a \in ax |-> ReducedGlobalStarts(rn[a], nprocs[a])]
        rge == [a \in ax |->
                  ReducedGlobalEnds(rn[a], nprocs[a], shifts[a], pads[a])]
        gs  == [a \in ax |-> GlobalStarts(rgs[a], rge[a], shifts[a], nprocs[a])]
    IN  [npts |-> npts, pads |-> pads, shifts |-> shifts, nprocs |-> nprocs,
         ext |-> ext,
         global_starts  |-> gs,
         global_ends    |-> [a \in ax |-> GlobalEnds(gs[a], nprocs[a], npts[a])],
         boundary_ranks |-> BoundaryRanks(nprocs, axis, ext)]

\* starts and ends of the block of the process with rank `rank`
StartsOf(side, rank) ==
    [a \in DOMAIN side.npts |->
        side.global_starts[a][Unravel(rank, side.nprocs)[a]]]

EndsOf(side, rank) ==
    [a \in DOMAIN side.npts |->
        side.global_ends[a][Unravel(rank, side.nprocs)[a]]]

\* lines 541-549 (565-573): what this rank sends
SendShape(own, rank) ==
    [a \in DOMAIN own.npts |->
        EndsOf(own, rank)[a] - StartsOf(own, rank)[a] + 1
            + 2 * own.shifts[a] * own.pads[a]]

SendStarts(own, axis, rank) ==
    [a \in DOMAIN own.npts |->
        IF a = axis /\ own.ext # 0 - 1
        THEN own.shifts[a] * own.pads[a]
                + EndsOf(own, rank)[a] - StartsOf(own, rank)[a] + 1
                - own.pads[a] - 1
        ELSE own.shifts[a] * own.pads[a]]

SendBufShape(own, axis, rank) ==
    [a \in DOMAIN own.npts |->
        IF a = axis THEN own.pads[a] + 1
        ELSE EndsOf(own, rank)[a] - StartsOf(own, rank)[a] + 1]

\* lines 556-557 (580-581): the shape of the buffer for the other side
RecvShape(other, axis) ==
    [a \in DOMAIN other.npts |->
        IF a = axis
        THEN other.pads[a] + 1 + 2 * other.shifts[a] * other.pads[a]
        ELSE other.npts[a] + 2 * other.shifts[a] * other.pads[a]]

\* mutant: the receiver counts the whole block of the k-th boundary rank
ShapeKWholeBlock(other, axis, k) ==
    [a \in DOMAIN other.npts |->
        EndsOf(other, other.boundary_ranks[k + 1])[a]
            - StartsOf(other, other.boundary_ranks[k + 1])[a] + 1]

\* lines 561-570 (585-594), for the k-th boundary rank of the other side
ShapeK(other, axis, k) ==
    [a \in DOMAIN other.npts |->
        IF a = axis THEN other.pads[a] + 1
        ELSE EndsOf(other, other.boundary_ranks[k + 1])[a]
                - StartsOf(other, other.boundary_ranks[k + 1])[a] + 1]

RecvCounts(other, axis) ==
    [k \in 0..(Len(other.boundary_ranks) - 1) |-> Product(ShapeK(other, axis, k))]

\* mutant: the table left as allocated, [0]*(len+1)
DisplacementsNoCumsum(other, axis) ==
    [k \in 0..Len(other.boundary_ranks) |-> 0]

\* line 596: displacements[1:] = np.cumsum(recv_counts)
Displacements(other, axis) ==
    [k \in 0..Len(other.boundary_ranks) |-> SumUpTo(RecvCounts(other, axis), k)]

\* mutant: the positions along the other axes not moved past the ghost cells
RangesLowNoPad(other, axis, k) ==
    [a \in DOMAIN other.npts |->
        IF a = axis THEN other.shifts[a] * other.pads[a]
        ELSE StartsOf(other, other.boundary_ranks[k + 1])[a]]

\* the lower ends of `ranges`
RangesLow(other, axis, k) ==
    [a \in DOMAIN other.npts |->
        IF a = axis THEN other.shifts[a] * other.pads[a]
        ELSE StartsOf(other, other.boundary_ranks[k + 1])[a]
                + other.pads[a] * other.shifts[a]]

\* mutant: every segment of the table laid at the place of the first
\* boundary rank's slice
RECURSIVE IndicesAtFirstUpTo(_, _, _)
IndicesAtFirstUpTo(other, axis, k) ==
    IF k < 0 THEN << >>
    ELSE IndicesAtFirstUpTo(other, axis, k - 1) \o
         [j \in 1..Product(ShapeK(other, axis, k)) |->
            SubarrayIndex(RecvShape(other, axis), ShapeK(other, axis, k),
                          RangesLow(other, axis, 0), j - 1)]

IndicesAtFirst(other, axis) ==
    Vec(IndicesAtFirstUpTo(other, axis, Len(other.boundary_ranks) - 1))

\* indices += [np.ravel_multi_index( ii, recv_shape ) for ii in product(..)]
RECURSIVE IndicesUpTo(_, _, _)
IndicesUpTo(other, axis, k) ==
    IF k < 0 THEN << >>
    ELSE IndicesUpTo(other, axis, k - 1) \o
         [j \in 1..Product(ShapeK(other, axis, k)) |->
            SubarrayIndex(RecvShape(other, axis), ShapeK(other, axis, k),
                          RangesLow(other, axis, k), j - 1)]

Indices(other, axis) ==
    Vec(IndicesUpTo(other, axis, Len(other.boundary_ranks) - 1))

\* lines 597-605: the info dictionary
CommunicationInfos(own, other, axis, rank) ==
    [send_buf_shape |-> SendBufShape(own, axis, rank),
     send_starts    |-> SendStarts(own, axis, rank),
     send_shape     |-> SendShape(own, rank),
     recv_shape     |-> RecvShape(other, axis),
     displacements  |-> Displacements(other, axis),
     recv_counts    |-> RecvCounts(other, axis),
     indices        |-> Indices(other, axis)]

\* ------------------------------------------------- the caller's plans
StartOp(exch, field)    == [op |-> "start", exch |-> exch, field |-> field, req |-> 0]
EndOp(exch, req, field) == [op |-> "end", exch |-> exch, field |-> field, req |-> req]

\* What every boundary rank calls, in this order: exchanger `exch` is an
\* InterfaceCartDataExchanger of the interface, `field` names the pair
\* (array_minus, array_plus) passed, `req` the start whose request is ended.
XchgPlans ==
    {[name |-> "single",
      ops  |-> <<StartOp(1, 1), EndOp(1, 1, 1)>>],
     [name |-> "repeat",
      ops  |-> <<StartOp(1, 1), EndOp(1, 1, 1), StartOp(1, 1), EndOp(1, 2, 1)>>],
     [name |-> "two_exchangers",
      ops  |-> <<StartOp(1, 1), StartOp(2, 2), EndOp(1, 1, 1), EndOp(2, 2, 2)>>],
     [name |-> "two_exchangers_swapped",
      ops  |-> <<StartOp(1, 1), StartOp(2, 2), EndOp(2, 2, 2), EndOp(1, 1, 1)>>],
     [name |-> "same_exchanger_twice",
      ops  |-> <<StartOp(1, 1), StartOp(1, 2), EndOp(1, 1, 1), EndOp(1, 2, 2)>>]}

XNptsMinus == Vec(<<4, 4>>)
XNptsPlus  == Vec(<<3, 5>>)
MaxSide    == 2
MaxBoundary == 3

\* the interfaces exchanged over: two patches of different resolution,
\* every process grid compute_dims may give for 1..MaxSide processes
XchgScenarios ==
    UNION {
      {[minus |-> MakeSide(XNptsMinus, Vec(<<1, 1>>), Vec(<<m, m>>), dm, axis, e[1]),
        plus  |-> MakeSide(XNptsPlus, [a \in 0..1 |-> IF a = axis THEN pp ELSE 1],
                           Vec(<<1, 1>>), dp, axis, e[2]),
        axis  |-> axis,
        plan  |-> plan] :
          axis \in 0..1, e \in Exts, pp \in 1..MaxPad,
          dm \in UNION {ValidDims(sz,
                          [a \in 0..1 |-> ReducedNpts(XNptsMinus[a], m, 1)],
                          Vec(<<1, 1>>)) : sz \in 1..MaxSide},
          dp \in UNION {ValidDims(sz, XNptsPlus, Vec(<<1, 1>>)) : sz \in 1..MaxSide},
          plan \in XchgPlans} :
      m \in 1..MaxShift}

\* the members of the intercommunicator: <<side, rank in the patch>>
XRanks == DOMAIN xpc

BoundaryRanksOf(x) ==
    {<<"minus", x.minus.boundary_ranks[n]>> : n \in 1..Len(x.minus.boundary_ranks)}
    \cup
    {<<"plus", x.plus.boundary_ranks[n]>> : n \in 1..Len(x.plus.boundary_ranks)}

Own(r)   == IF r[1] = "minus" THEN ixs.minus ELSE ixs.plus
Other(r) == IF r[1] = "minus" THEN ixs.plus ELSE ixs.minus

\* the remote group, in rank order
Remote(r, k) ==
    <<IF r[1] = "minus" THEN "plus" ELSE "minus", Other(r).boundary_ranks[k + 1]>>

\* _create_buffer_types (lines 1378-1399): the send type as the flat
\* positions it selects, and the tables taken from the info dictionary
CreateBufferTypes(x, r) ==
    LET info == CommunicationInfos(IF r[1] = "minus" THEN x.minus ELSE x.plus,
                                   IF r[1] = "minus" THEN x.plus ELSE x.minus,
                                   x.axis, r[2])
    IN  [send_types    |-> SubarrayCells(info.send_shape, info.send_buf_shape,
                                         info.send_starts),
         displacements |-> info.displacements,
         recv_counts   |-> info.recv_counts,
         indices       |-> info.indices]

FieldsOf(plan) == {plan.ops[n].field : n \in DOMAIN plan.ops}
ExchOf(plan)   == {plan.ops[n].exch : n \in DOMAIN plan.ops}

\* the content of the rank's own array of a field: a value per field, rank
\* and cell, different for all of them
OwnArray(x, r, f) ==
    LET own == IF r[1] = "minus" THEN x.minus ELSE x.plus
    IN  [c \in 0..(Product(SendShape(own, r[2])) - 1) |->
            f * 100000 + (IF r[1] = "minus" THEN 10 ELSE 20) * 1000
                + r[2] * 1000 + c]

\* the array the rank holds for the other side's boundary layer
GhostArray(x, r) ==
    LET other == IF r[1] = "minus" THEN x.plus ELSE x.minus
    IN  [c \in 0..(Product(RecvShape(other, x.axis)) - 1) |-> Stale]

\* mutant: one receive buffer for all the exchangers
BufferShared(exch) == 1

\* line 1340: every exchanger allocates its own self._recv_buf
BufferOf(exch) == exch

InitXchg ==
    /\ ixs \in {x \in XchgScenarios :
                  Len(x.minus.boundary_ranks) + Len(x.plus.boundary_ranks)
                      <= MaxBoundary}
    /\ xpc = [r \in BoundaryRanksOf(ixs) |-> 1]
    /\ reqs = [r \in BoundaryRanksOf(ixs) |-> << >>]
    /\ array_minus = [r \in BoundaryRanksOf(ixs) |-> [f \in FieldsOf(ixs.plan) |->
            IF r[1] = "minus" THEN OwnArray(ixs, r, f) ELSE GhostArray(ixs, r)]]
    /\ array_plus = [r \in BoundaryRanksOf(ixs) |-> [f \in FieldsOf(ixs.plan) |->
            IF r[1] = "plus" THEN OwnArray(ixs, r, f) ELSE GhostArray(ixs, r)]]
    /\ exchanger = [r \in BoundaryRanksOf(ixs) |-> CreateBufferTypes(ixs, r)]
    \* np.empty((displacements[-1],)): never read before a gather has filled it
    /\ recv_buf = [r \in BoundaryRanksOf(ixs) |-> [e \in ExchOf(ixs.plan) |->
            [pos \in 0..(exchanger[r].displacements[
                            NDim(exchanger[r].displacements) - 1] - 1) |-> Stale]]]
    /\ IdleCart /\ IdleHalo /\ IdleIctor /\ IdleMulti /\ IdleReduce /\ IdleArrays

XchgDone(r) == xpc[r] > Len(ixs.plan.ops)

\* the array a rank sends from / scatters into
SourceOf(r, f) == IF r[1] = "minus" THEN array_minus[r][f] ELSE array_plus[r][f]
TargetOf(r, f) == IF r[1] = "minus" THEN array_plus[r][f] ELSE array_minus[r][f]

\* start_update_ghost_regions (lines 1343-1362): post the Iallgatherv and
\* return its request
StartUpdate(r) ==
    /\ ~XchgDone(r)
    /\ ixs.plan.ops[xpc[r]].op = "start"
    /\ reqs' = [reqs EXCEPT ![r] = Append(@,
                  [exch  |-> ixs.plan.ops[xpc[r]].exch,
                   field |-> ixs.plan.ops[xpc[r]].field,
                   done  |-> FALSE])]
    /\ xpc' = [xpc EXCEPT ![r] = @ + 1]
    /\ UNCHANGED <<ixs, array_minus, array_plus, exchanger, recv_buf>>
    /\ UNCHANGED nonXchgVars

\* what the n-th Iallgatherv puts into the receive buffer of rank r: at
\* displacements[k], at most recv_counts[k] of the cells the k-th remote
\* rank's send type selects from the array it passed to its n-th call
RECURSIVE GatheredUpTo(_, _, _, _)
GatheredUpTo(r, n, buf, k) ==
    IF k < 0 THEN buf
    ELSE LET prev == GatheredUpTo(r, n, buf, k - 1)
             q    == Remote(r, k)
             src  == SourceOf(q, reqs[q][n].field)
             sent == [j \in DOMAIN exchanger[q].send_types |->
                        src[exchanger[q].send_types[j]]]
             d    == exchanger[r].displacements[k]
         IN  [pos \in DOMAIN buf |->
                IF /\ d <= pos /\ pos < d + exchanger[r].recv_counts[k]
                   /\ pos - d \in DOMAIN sent
                THEN sent[pos - d] ELSE prev[pos]]

Gathered(r, n, buf) ==
    GatheredUpTo(r, n, buf, Len(Other(r).boundary_ranks) - 1)

\* The n-th Iallgatherv of rank r completes: every rank of the remote group
\* has made its n-th call on the intercommunicator.
Complete(r, n) ==
    /\ n \in 1..Len(reqs[r])
    /\ ~reqs[r][n].done
    /\ \A k \in 0..(Len(Other(r).boundary_ranks) - 1) : Len(reqs[Remote(r, k)]) >= n
    /\ recv_buf' = [recv_buf EXCEPT ![r][BufferOf(reqs[r][n].exch)] =
                        Gathered(r, n, @)]
    /\ reqs' = [reqs EXCEPT ![r][n].done = TRUE]
    /\ UNCHANGED <<ixs, array_minus, array_plus, exchanger, xpc>>
    /\ UNCHANGED nonXchgVars

RECURSIVE ScatterAddUpTo(_, _, _, _)
ScatterAddUpTo(a, indices, buf, n) ==
    IF n < 0 THEN a
    ELSE [ScatterAddUpTo(a, indices, buf, n - 1) EXCEPT ![indices[n]] = @ + buf[n]]

\* mutant: the scatter adds to the cells
ScatterAdd(a, indices, buf) == ScatterAddUpTo(a, indices, buf, NDim(indices) - 1)

RECURSIVE ScatterUpTo(_, _, _, _)
ScatterUpTo(a, indices, buf, n) ==
    IF n < 0 THEN a
    ELSE [ScatterUpTo(a, indices, buf, n - 1) EXCEPT ![indices[n]] = buf[n]]

\* raveled_array[indices] = recv_buf: one assignment per position, in order
Scatter(a, indices, buf) == ScatterUpTo(a, indices, buf, NDim(indices) - 1)

\* mutant: the scatter does not wait for the request
WaitSkipped(req) == TRUE

\* MPI.Request.wait(req) returns
WaitDone(req) == req.done

\* end_update_ghost_regions (lines 1364-1375)
EndUpdate(r) ==
    /\ ~XchgDone(r)
    /\ ixs.plan.ops[xpc[r]].op = "end"
    /\ WaitDone(reqs[r][ixs.plan.ops[xpc[r]].req])
    /\ LET op  == ixs.plan.ops[xpc[r]]
           new == Scatter(TargetOf(r, op.field), exchanger[r].indices,
                          recv_buf[r][BufferOf(op.exch)])
       IN  IF r[1] = "minus"
           THEN /\ array_plus' = [array_plus EXCEPT ![r][op.field] = new]
                /\ UNCHANGED array_minus
           ELSE /\ array_minus' = [array_minus EXCEPT ![r][op.field] = new]
                /\ UNCHANGED array_plus
    /\ xpc' = [xpc EXCEPT ![r] = @ + 1]
    /\ UNCHANGED <<ixs, exchanger, recv_buf, reqs>>
    /\ UNCHANGED nonXchgVars

NextXchg ==
    \/ \E r \in XRanks : StartUpdate(r)
    \/ \E r \in XRanks : \E n \in 1..Len(reqs[r]) : Complete(r, n)
    \/ \E r \in XRanks : EndUpdate(r)

SpecXchg == InitXchg /\ [][NextXchg]_vars

\* ------------------------------------------------------------- claims
AllXchgDone == \A r \in XRanks : XchgDone(r)

\* Rank r holds, for field f, the boundary layer of the other side: for
\* every boundary rank q of the other side, every global index of q's block
\* along the other axes and every depth 0..pad in the layer, the cell of
\* the target array at (global index + ghost width, ghost width + depth)
\* equals the cell of q's array at the same global index and the same depth
\* of q's (pad+1)-thick layer at the interface.
Delivered(r, f) ==
    \A k \in 0..(Len(Other(r).boundary_ranks) - 1) :
        LET o     == Other(r)
            b     == o.boundary_ranks[k + 1]
            q     == Remote(r, k)
            lens  == [a \in DOMAIN o.npts |-> EndsOf(o, b)[a] - StartsOf(o, b)[a] + 1]
            layer == [a \in DOMAIN o.npts |->
                        IF a = ixs.axis THEN o.pads[a] + 1 ELSE lens[a]]
            ghost == [a \in DOMAIN o.npts |-> o.shifts[a] * o.pads[a]]
            tshape == [a \in DOMAIN o.npts |->
                        IF a = ixs.axis THEN layer[a] + 2 * ghost[a]
                        ELSE o.npts[a] + 2 * ghost[a]]
            sshape == [a \in DOMAIN o.npts |-> lens[a] + 2 * ghost[a]]
        IN  \A j \in 0..(Product(layer) - 1) :
                LET x    == Unravel(j, layer)
                    tpos == [a \in DOMAIN o.npts |->
                               IF a = ixs.axis THEN ghost[a] + x[a]
                               ELSE ghost[a] + StartsOf(o, b)[a] + x[a]]
                    spos == [a \in DOMAIN o.npts |->
                               IF a = ixs.axis /\ o.ext = 1
                               THEN ghost[a] + lens[a] - layer[a] + x[a]
                               ELSE ghost[a] + x[a]]
                IN  TargetOf(r, f)[Ravel(tpos, tshape)]
                        = SourceOf(q, f)[Ravel(spos, sshape)]

\* C6: after one start_update_ghost_regions / end_update_ghost_regions pair,
\* a boundary rank's ghost buffer holds at every position of the boundary
\* layer the value of the corresponding cell of the sending side.
C6_InterfaceRoundTrip ==
    ixs.plan.name \in {"single", "repeat"} =>
        \A r \in XRanks : xpc[r] > 2 => Delivered(r, 1)

\* all boundary ranks have exchanged once, between patches of different
\* resolution and different process counts
C6_Witness ==
    /\ ixs.plan.name = "single" /\ AllXchgDone
    /\ ixs.minus.npts # ixs.plus.npts
    /\ Product(ixs.minus.nprocs) # Product(ixs.plus.nprocs)

\* C7: the end of a second exchange with unchanged sender data changes no
\* array: the ghost buffer stays as the first exchange left it.
C7_Idempotent ==
    [][ixs.plan.name = "repeat" =>
         \A r \in XRanks :
            xpc[r] = 4 /\ xpc'[r] = 5 =>
                array_minus' = array_minus /\ array_plus' = array_plus]_vars

C7_Witness == ixs.plan.name = "repeat" /\ \A r \in XRanks : xpc[r] = 5

\* every end a rank has returned from scattered the data of its own start
EveryEndDelivered ==
    \A r \in XRanks : \A i \in DOMAIN ixs.plan.ops :
        i < xpc[r] /\ ixs.plan.ops[i].op = "end" =>
            Delivered(r, ixs.plan.ops[i].field)

\* C8 (as stated): whatever exchanges are started before any of them is
\* ended, on different exchangers or twice on the same exchanger, each end
\* scatters exactly the data gathered by its own start.
C8_AsStated == EveryEndDelivered

\* C8 (amended): exchanges started on different exchangers before any of
\* them is ended are independent: each end scatters exactly the data
\* gathered by its own start.
C8_DifferentExchangers ==
    ixs.plan.name \in {"two_exchangers", "two_exchangers_swapped"} =>
        EveryEndDelivered

\* two exchanges were pending together and both have been ended, the
\* second one first
C8_Witness ==
    /\ ixs.plan.name = "two_exchangers_swapped" /\ AllXchgDone
    /\ Cardinality(XRanks) > 2

\* C9: a start changes no array; an end happens only once its request has
\* completed, and then changes only the other side's array of the rank,
\* only at the positions of the index table, where it puts the packed
\* receive buffer.
C9_EndWaitsThenScatters ==
    [][\A r \in XRanks :
        xpc'[r] # xpc[r] =>
            LET op == ixs.plan.ops[xpc[r]]
            IN  IF op.op = "start"
                THEN array_minus' = array_minus /\ array_plus' = array_plus
                ELSE /\ reqs[r][op.req].done
                     /\ \A q \in XRanks : \A f \in FieldsOf(ixs.plan) :
                          /\ q # r \/ f # op.field \/ r[1] = "minus" =>
                                array_minus'[q][f] = array_minus[q][f]
                          /\ q # r \/ f # op.field \/ r[1] = "plus" =>
                                array_plus'[q][f] = array_plus[q][f]
                     /\ LET old == IF r[1] = "minus" THEN array_plus[r][op.field]
                                   ELSE array_minus[r][op.field]
                            new == IF r[1] = "minus" THEN array_plus'[r][op.field]
                                   ELSE array_minus'[r][op.field]
                        IN  /\ \A c \in DOMAIN old :
                                  c \notin Range(exchanger[r].indices) =>
                                      new[c] = old[c]
                            /\ \A pos \in DOMAIN exchanger[r].indices :
                                  new[exchanger[r].indices[pos]]
                                      = recv_buf[r][op.exch][pos]]_vars

\* a rank has ended its exchange while another rank's request is pending
C9_Witness ==
    /\ ixs.plan.name = "single"
    /\ \E r \in XRanks : xpc[r] = 3
    /\ \E q \in XRanks : Len(reqs[q]) = 1 /\ ~reqs[q][1].done

\* the global indices of the boundary layer of the block of rank b of a
\* side (of a two-dimensional patch): pad+1 indices along the interface axis counted from the side's
\* extremity, the whole block along the other axes
BoundarySlice(side, axis, b) ==
    LET lo == [a \in DOMAIN side.npts |->
                 IF a = axis /\ side.ext = 1
                 THEN EndsOf(side, b)[a] - side.pads[a]
                 ELSE StartsOf(side, b)[a]]
        hi == [a \in DOMAIN side.npts |->
                 IF a = axis /\ side.ext # 1
                 THEN StartsOf(side, b)[a] + side.pads[a]
                 ELSE EndsOf(side, b)[a]]
    IN  {Vec(<<i0, i1>>) : i0 \in lo[0]..hi[0], i1 \in lo[1]..hi[1]}

\* C21: in the plan of every boundary rank, recv_counts[k] is the number of
\* cells of the (pad+1)-thick boundary layer of the k-th boundary rank of
\* the other side, displacements is the prefix sum of recv_counts starting
\* at 0, and the receive buffer of every exchanger has displacements[-1] =
\* sum(recv_counts) elements.
C21_PlanCountsAndDisplacements ==
    \A r \in XRanks :
        LET o == Other(r)
            n == Len(o.boundary_ranks)
            x == exchanger[r]
        IN  /\ DOMAIN x.recv_counts = 0..(n - 1)
            /\ DOMAIN x.displacements = 0..n
            /\ \A k \in 0..(n - 1) :
                  /\ x.recv_counts[k]
                       = Cardinality(BoundarySlice(o, ixs.axis, o.boundary_ranks[k + 1]))
                  /\ x.displacements[k + 1] = x.displacements[k] + x.recv_counts[k]
            /\ x.displacements[0] = 0
            /\ x.displacements[n] = SumUpTo(x.recv_counts, n)
            /\ \A e \in ExchOf(ixs.plan) :
                  DOMAIN recv_buf[r][e] = 0..(x.displacements[n] - 1)

\* a rank that receives from two boundary ranks with layers of different
\* volume has completed an exchange
C21_Witness ==
    \E r \in XRanks :
        /\ XchgDone(r)
        /\ Len(Other(r).boundary_ranks) = 2
        /\ exchanger[r].recv_counts[0] # exchanger[r].recv_counts[1]
        /\ exchanger[r].displacements[2] > exchanger[r].displacements[1]

\* the boundary ranks of a side are the ranks of its process grid whose
\* coordinate along the interface axis is 0 (extremity -1) or the last one
\* (extremity +1), one per combination of the other coordinates, in
\* increasing order
BoundaryRanksAtExtremity(side, axis) ==
    LET b    == side.boundary_ranks
        edge == IF side.ext = 0 - 1 THEN 0 ELSE side.nprocs[axis] - 1
    IN  /\ {b[n] : n \in 1..Len(b)} =
              {l \in 0..(Product(side.nprocs) - 1) :
                  Unravel(l, side.nprocs)[axis] = edge}
        /\ \A n \in 1..(Len(b) - 1) : b[n] < b[n + 1]
        /\ Len(b) * side.nprocs[axis] = Product(side.nprocs)

\* the cells the rank owns along axis a of its local array
OwnedAlong(side, rank, a) ==
    LET g == side.shifts[a] * side.pads[a]
    IN  g..(g + EndsOf(side, rank)[a] - StartsOf(side, rank)[a])

\* the cells of the slice the rank sends, along axis a
SentAlong(side, axis, rank, a) ==
    SendStarts(side, axis, rank)[a]..
        (SendStarts(side, axis, rank)[a] + SendBufShape(side, axis, rank)[a] - 1)

\* the slice is pad+1 thick along the interface axis and made of the first
\* (extremity -1) or last (extremity +1) owned cells, and spans the owned
\* cells on the other axes
SendsBoundaryLayer(side, axis, rank) ==
    \A a \in DOMAIN side.npts :
        IF a = axis
        THEN /\ Cardinality(SentAlong(side, axis, rank, a)) = side.pads[a] + 1
             /\ SentAlong(side, axis, rank, a) \subseteq OwnedAlong(side, rank, a)
             /\ (IF side.ext = 0 - 1
                 THEN side.shifts[a] * side.pads[a]
                 ELSE side.shifts[a] * side.pads[a]
                        + EndsOf(side, rank)[a] - StartsOf(side, rank)[a])
                    \in SentAlong(side, axis, rank, a)
        ELSE SentAlong(side, axis, rank, a) = OwnedAlong(side, rank, a)

\* C32: on each side of an interface the boundary ranks are the ranks at
\* coordinate 0 (extremity -1) or nprocs[axis]-1 (extremity +1) along the
\* interface axis, in increasing order, and each of them sends a slice
\* pad+1 cells thick along the interface axis, the first (-1) or last (+1)
\* pad+1 owned cells, that spans exactly its owned cells on the other axes.
C32_BoundaryRanksAndSlices ==
    /\ BoundaryRanksAtExtremity(ixs.minus, ixs.axis)
    /\ BoundaryRanksAtExtremity(ixs.plus, ixs.axis)
    /\ \A r \in XRanks : SendsBoundaryLayer(Own(r), ixs.axis, r[2])

\* the shape of the array a rank holds for the other side, as the claim
\* gives it
StatedRecvShape(o, axis) ==
    [a \in DOMAIN o.npts |->
        IF a = axis THEN o.pads[a] + 1 + 2 * o.shifts[a] * o.pads[a]
        ELSE o.npts[a] + 2 * o.shifts[a] * o.pads[a]]

\* the k-th segment of the table of rank r lists the slice of the k-th
\* boundary rank of the other side in row-major order: its j-th entry is
\* the cell at the j-th multi-index of the slice, the order in which that
\* rank's send type packs its cells
SegmentInPackingOrder(r, k) ==
    LET o     == Other(r)
        q     == Remote(r, k)
        slice == SendBufShape(o, ixs.axis, q[2])
        d     == exchanger[r].displacements[k]
    IN  /\ exchanger[r].displacements[k + 1] - d = Product(slice)
        /\ NDim(exchanger[q].send_types) = Product(slice)
        /\ \A j \in 0..(Product(slice) - 1) :
              LET x == Unravel(j, slice)
              IN  /\ Unravel(exchanger[r].indices[d + j], StatedRecvShape(o, ixs.axis))
                        = [a \in DOMAIN o.npts |->
                              o.shifts[a] * o.pads[a] + x[a]
                                + (IF a = ixs.axis THEN 0 ELSE StartsOf(o, q[2])[a])]
                  /\ Unravel(exchanger[q].send_types[j], SendShape(o, q[2]))
                        = [a \in DOMAIN o.npts |->
                              SendStarts(o, ixs.axis, q[2])[a] + x[a]]

\* C35: the scatter table of an exchange plan has displacements[-1]
\* entries, pairwise distinct, each in [0, product(recv_shape)) with
\* recv_shape npts+2*shift*pad of the remote patch on the other axes and
\* pad+1+2*shift*pad on the interface axis; its k-th segment lists remote
\* boundary rank k's slice in row-major order, the order of packing.
ScatterTableAsStated ==
    \A r \in XRanks :
        LET ind == exchanger[r].indices
            dis == exchanger[r].displacements
            nb  == Len(Other(r).boundary_ranks)
        IN  /\ NDim(ind) = dis[nb]
            /\ \A i \in DOMAIN ind : \A j \in DOMAIN ind :
                  i # j => ind[i] # ind[j]
            /\ \A i \in DOMAIN ind :
                  0 <= ind[i] /\ ind[i] < Product(StatedRecvShape(Other(r), ixs.axis))
            /\ \A k \in 0..(nb - 1) : SegmentInPackingOrder(r, k)

\* C35: the scatter tables are as stated above when the exchangers are
\* built (before any rank has started an exchange), and no exchange changes
\* them
TablesWhenBuilt == (\A r \in XRanks : xpc[r] = 1) => ScatterTableAsStated

C35_ScatterTable ==
    []TablesWhenBuilt /\ [][exchanger' = exchanger /\ ixs' = ixs]_vars

\* a rank facing two boundary ranks of the other side: a table of two
\* segments, the second one starting past the first
C35_Witness ==
    \E r \in XRanks :
        /\ Len(Other(r).boundary_ranks) = 2
        /\ exchanger[r].displacements[1] > 0
        /\ NDim(exchanger[r].indices) = exchanger[r].displacements[2]
        /\ exchanger[r].indices[exchanger[r].displacements[1]]
              > exchanger[r].indices[exchanger[r].displacements[1] - 1]
        /\ XchgDone(r)

\* the CartDecomposition of a patch as MultiCartDecomposition builds it on
\* the patch's rank `rank` (line 84: no nprocs, no reverse_axis), for the
\* process grid the interface holds for the patch
PatchCart(side, rank) ==
    BuildCart(side.npts, side.pads, [a \in DOMAIN side.npts |-> FALSE],
              side.shifts, side.nprocs, NoAxis, rank)

\* the tables the interface recomputed for a patch are the tables of the
\* patch's own decomposition, on every rank of the patch
TablesAgree(side) ==
    \A rank \in 0..(Product(side.nprocs) - 1) :
        LET c == PatchCart(side, rank)
        IN  /\ c.dims = side.nprocs
            /\ c.global_starts = side.global_starts
            /\ c.global_ends = side.global_ends
            /\ c.starts = StartsOf(side, rank)
            /\ c.ends = EndsOf(side, rank)
            /\ c.shape = SendShape(side, rank)

\* what the k-th boundary rank of the other side sends is what rank r
\* expects from it
CountsAgree(r) ==
    \A k \in 0..(Len(Other(r).boundary_ranks) - 1) :
        /\ Product(SendBufShape(Other(r), ixs.axis, Remote(r, k)[2]))
              = exchanger[r].recv_counts[k]
        /\ NDim(exchanger[Remote(r, k)].send_types) = exchanger[r].recv_counts[k]

CountsWhenBuilt ==
    (\A r \in XRanks : xpc[r] = 1) =>
        /\ \A r \in XRanks : CountsAgree(r)
        /\ TablesAgree(ixs.minus) /\ TablesAgree(ixs.plus)

\* C36: for every boundary rank k of one side of an interface, the number
\* of elements k sends (the product of its send_buf_shape) is the
\* recv_counts[k] every rank of the other side computed from its own copy
\* of the decomposition of k's patch; the copies have the process grid and
\* the start/end tables of the patch's decomposition. The plans are built
\* once and no exchange changes them.
C36_SendCountsMatchRecvCounts ==
    []CountsWhenBuilt /\ [][exchanger' = exchanger]_vars

\* a rank expects different numbers of elements from the two boundary
\* ranks of the other patch, and each of them sends that many
C36_Witness ==
    \E r \in XRanks :
        /\ Len(Other(r).boundary_ranks) = 2
        /\ exchanger[r].recv_counts[0] # exchanger[r].recv_counts[1]
        /\ CountsAgree(r)
        /\ xpc[r] = 1

\* ======================================================================
\* MultiCartDecomposition.__init__ on every rank of the pool
\* ======================================================================

\* the per-patch arguments of one patch: valid ones, and the malformed ones
\* (no points, a negative pad, a flag that is no bool, pads of another
\* length) and a grid of one point that two processes cannot share
PatchArgs ==
    {[npts |-> Vec(<<4>>), pads |-> Vec(<<1>>),        periods |-> Vec(<<"False">>)],
     [npts |-> Vec(<<0>>), pads |-> Vec(<<1>>),        periods |-> Vec(<<"False">>)],
     [npts |-> Vec(<<4>>), pads |-> Vec(<<0 - 1>>),    periods |-> Vec(<<"True">>)],
     [npts |-> Vec(<<4>>), pads |-> Vec(<<1>>),        periods |-> Vec(<<"1">>)],
     [npts |-> Vec(<<4>>), pads |-> Vec(<<1, 1>>),     periods |-> Vec(<<"False">>)],
     [npts |-> Vec(<<1>>), pads |-> Vec(<<0>>),        periods |-> Vec(<<"False">>)]}

\* The arguments of MultiCartDecomposition: one entry per patch in npts,
\* pads and periods; `extra_pads` stands for a pads list that is one entry
\* longer than npts.
MultiArgs ==
    {[patches |-> Vec(<<a, b>>), extra_pads |-> x, size |-> sz] :
        a \in PatchArgs, b \in PatchArgs, x \in BOOLEAN, sz \in 2..MaxSize}

\* mutant: the point counts are not checked
MultiArgsValidNoNptsCheck(i) ==
    ~i.extra_pads

\* lines 42-43
MultiArgsValid(i) ==
    /\ ~i.extra_pads
    /\ \A k \in DOMAIN i.patches : \A a \in DOMAIN i.patches[k].npts :
          i.patches[k].npts[a] >= 1

\* the arguments CartDecomposition gets for patch k on a sub-communicator of
\* `size` ranks (lines 48, 84-85): shifts default to 1 along the axes of
\* the first patch, nprocs and reverse_axis are not passed
PatchCartArgs(i, k, size) ==
    Args(i.patches[k].npts, i.patches[k].pads, i.patches[k].periods,
         [a \in DOMAIN i.patches[0].npts |-> 1], size, FALSE, NoDims, NoAxis)

\* CartDecomposition.__init__ up to line 698 raises on these arguments,
\* compute_dims having returned `computed`
PatchFails(args, computed) ==
    \/ ~ArgsValid(args)
    \/ DimsOrError(args, computed)[1] # ""

MRanks == DOMAIN mpc

\* mutant: the first rank of a range does not own the patch
MOwnedStrict(r) ==
    {k \in DOMAIN minp.rank_ranges :
        minp.rank_ranges[k][1] < r /\ r <= minp.rank_ranges[k][2]}

\* lines 77-81: the patches the rank owns
MOwned(r) ==
    {k \in DOMAIN minp.rank_ranges :
        minp.rank_ranges[k][1] <= r /\ r <= minp.rank_ranges[k][2]}

MGroup(k) == minp.rank_ranges[k][1] .. minp.rank_ranges[k][2]

NoObject ==
    [local_groups |-> << >>, local_communicators |-> << >>,
     owned_groups |-> << >>, carts |-> << >>, rank_ranges |-> << >>]

InitMulti ==
    /\ \E i \in MultiArgs :
       \E sz \in PartitionSizes(NDim(i.patches), i.size) :
       \E d \in [DOMAIN i.patches -> [0..0 -> 1..MaxSize] \cup {NoDims}] :
          /\ \A k \in DOMAIN i.patches :
                LET a == PatchCartArgs(i, k, sz[k])
                IN  d[k] \in (IF ArgsValid(a)
                              THEN ComputeDimsResults(sz[k], ReducedNptsOf(a), a.pads)
                              ELSE {NoDims})
          /\ minp = [args |-> i, sizes |-> sz, rank_ranges |-> RankRangesOf(sz),
                     dims |-> d]
    /\ mpc   = [r \in 0..(minp.args.size - 1) |-> "start"]
    /\ mcoll = [r \in 0..(minp.args.size - 1) |-> 0]
    /\ mobj  = [r \in 0..(minp.args.size - 1) |-> NoObject]
    /\ merr  = [r \in 0..(minp.args.size - 1) |-> ""]
    /\ aborted = FALSE
    /\ IdleCart /\ IdleHalo /\ IdleIctor /\ IdleXchg /\ IdleReduce /\ IdleArrays

\* lines 42-44: the assertions on the arguments
MCheckArguments(r) ==
    /\ ~aborted /\ mpc[r] = "start"
    /\ IF MultiArgsValid(minp.args)
       THEN mpc' = [mpc EXCEPT ![r] = "checked"] /\ UNCHANGED merr
       ELSE /\ mpc'  = [mpc EXCEPT ![r] = "raised"]
            /\ merr' = [merr EXCEPT ![r] = "AssertionError"]
    /\ UNCHANGED <<minp, mcoll, mobj, aborted>>
    /\ UNCHANGED nonMultiVars

\* lines 61-80: the rank ranges are computed, the group of the owned patch
\* is built and comm.Create_group is called (collective over the group)
MCreateGroup(r) ==
    /\ ~aborted /\ mpc[r] = "checked"
    /\ mpc'   = [mpc EXCEPT ![r] = "in_group"]
    /\ mcoll' = [mcoll EXCEPT ![r] = 1]
    /\ mobj'  = [mobj EXCEPT ![r] =
          [rank_ranges  |-> minp.rank_ranges,
           local_groups |-> [k \in DOMAIN minp.rank_ranges |->
                               IF k \in MOwned(r) THEN MGroup(k) ELSE NoGroup],
           local_communicators |-> [k \in DOMAIN minp.rank_ranges |-> NoGroup],
           owned_groups |-> {},
           carts        |-> [k \in DOMAIN minp.rank_ranges |-> NoCart]]]
    /\ UNCHANGED <<minp, merr, aborted>>
    /\ UNCHANGED nonMultiVars

\* lines 80-81: Create_group returns once every rank of the group called it
MGroupCreated(r) ==
    /\ ~aborted /\ mpc[r] = "in_group"
    /\ \A k \in MOwned(r) : \A q \in MGroup(k) : mcoll[q] >= 1
    /\ mpc'  = [mpc EXCEPT ![r] = "carts"]
    /\ mobj' = [mobj EXCEPT
          ![r].local_communicators = [k \in DOMAIN @ |->
                IF k \in MOwned(r) THEN MGroup(k) ELSE NoGroup],
          ![r].owned_groups = MOwned(r)]
    /\ UNCHANGED <<minp, mcoll, merr, aborted>>
    /\ UNCHANGED nonMultiVars

\* mutant: the except clause lets the constructor go on
FailureIgnored == FALSE

\* lines 86-87: "except: comm.Abort(1)"
FailureAborts == TRUE

\* lines 83-87: CartDecomposition( ..., comm=sub_comm ) for the owned patch,
\* inside the try: its assertions and compute_dims, then Create_cart; any
\* exception ends in comm.Abort(1)
MCartArguments(r) ==
    /\ ~aborted /\ mpc[r] = "carts"
    /\ IF \E k \in MOwned(r) :
             PatchFails(PatchCartArgs(minp.args, k, minp.sizes[k]), minp.dims[k])
       THEN IF FailureAborts
            THEN aborted' = TRUE /\ UNCHANGED <<mpc, mcoll>>
            ELSE mpc' = [mpc EXCEPT ![r] = "done"] /\ UNCHANGED <<aborted, mcoll>>
       ELSE /\ mpc'   = [mpc EXCEPT ![r] = "in_cart"]
            /\ mcoll' = [mcoll EXCEPT ![r] = 2]
            /\ UNCHANGED aborted
    /\ UNCHANGED <<minp, mobj, merr>>
    /\ UNCHANGED nonMultiVars

\* lines 84-92: Create_cart returns once every rank of the sub-communicator
\* called it; the topology is built (as in CartCreated and SubReturned, on
\* the sub-communicator) and the fields are stored
MCartCreated(r) ==
    /\ ~aborted /\ mpc[r] = "in_cart"
    /\ \A k \in MOwned(r) : \A q \in MGroup(k) : mcoll[q] >= 2
    /\ mpc'  = [mpc EXCEPT ![r] = "done"]
    /\ mobj' = [mobj EXCEPT ![r].carts = [k \in DOMAIN @ |->
          IF k \in MOwned(r)
          THEN LET a == PatchCartArgs(minp.args, k, minp.sizes[k])
               IN  BuildCart(a.npts, a.pads, PeriodsOf(a), a.shifts,
                             minp.dims[k], a.reverse_axis,
                             r - minp.rank_ranges[k][1])
          ELSE NoCart]]
    /\ UNCHANGED <<minp, mcoll, merr, aborted>>
    /\ UNCHANGED nonMultiVars

NextMulti ==
    \/ \E r \in MRanks : MCheckArguments(r)
    \/ \E r \in MRanks : MCreateGroup(r)
    \/ \E r \in MRanks : MGroupCreated(r)
    \/ \E r \in MRanks : MCartArguments(r)
    \/ \E r \in MRanks : MCartCreated(r)

SpecMulti == InitMulti /\ [][NextMulti]_vars

\* ----------------------------------------------------------------------
\* Claims on MultiCartDecomposition.__init__
\* ----------------------------------------------------------------------

Patches == DOMAIN minp.args.patches

OuterMismatch == minp.args.extra_pads

NonPositivePoints ==
    \E k \in Patches : \E a \in DOMAIN minp.args.patches[k].npts :
        minp.args.patches[k].npts[a] < 1

\* patch k has a negative pad, a periodicity flag that is no bool, or pads
\* or periods of another length than npts
PatchMalformed(k) ==
    LET p == minp.args.patches[k]
    IN  \/ \E a \in DOMAIN p.pads : p.pads[a] < 0
        \/ \E a \in DOMAIN p.periods : ~IsBool(p.periods[a])
        \/ NDim(p.pads) # NDim(p.npts)
        \/ NDim(p.periods) # NDim(p.npts)

MalformedArgs ==
    OuterMismatch \/ NonPositivePoints \/ \E k \in Patches : PatchMalformed(k)

\* C12 as stated: with malformed per-patch arguments every rank raises
\* before any collective call (Create_group, Create_cart) is issued
C12_AsStated ==
    MalformedArgs =>
        /\ ~aborted
        /\ \A r \in MRanks : mcoll[r] = 0 /\ mpc[r] \in {"start", "raised"}

\* C12 (amended): a mismatch of the lists' lengths and a non-positive point
\* count raise an AssertionError on every rank before any collective call;
\* a negative pad, an invalid periodicity flag and a length mismatch inside
\* a patch are found only by the patch's CartDecomposition, after
\* Create_group was issued: its owners issue no Create_cart, never return
\* and raise nothing.
C12_EntryChecksOnly ==
    /\ (OuterMismatch \/ NonPositivePoints) =>
          /\ ~aborted
          /\ \A r \in MRanks :
                /\ mcoll[r] = 0
                /\ mpc[r] \in {"start", "raised"}
                /\ mpc[r] = "raised" => merr[r] = "AssertionError"
    /\ ~(OuterMismatch \/ NonPositivePoints) =>
          \A r \in MRanks :
             /\ merr[r] = ""
             /\ (\E k \in MOwned(r) : PatchMalformed(k)) =>
                   /\ mpc[r] \in {"start", "checked", "in_group", "carts"}
                   /\ mcoll[r] <= 1

C12_Witness ==
    /\ ~OuterMismatch /\ ~NonPositivePoints
    /\ aborted
    /\ \E r \in MRanks : \E k \in MOwned(r) :
          /\ PatchMalformed(k)
          /\ \E a \in DOMAIN minp.args.patches[k].pads :
                minp.args.patches[k].pads[a] < 0
          /\ mcoll[r] = 1

\* the construction of the topology of a patch the rank owns fails
OwnedPatchFails(r) ==
    \E k \in MOwned(r) :
        PatchFails(PatchCartArgs(minp.args, k, minp.sizes[k]), minp.dims[k])

\* every field of the object is set, with a topology for each owned patch
FullyBuilt(r) ==
    /\ mobj[r].owned_groups = MOwned(r)
    /\ \A k \in Patches :
          IF k \in MOwned(r)
          THEN /\ mobj[r].carts[k] # NoCart
               /\ mobj[r].carts[k].rank_in_topo = r - minp.rank_ranges[k][1]
               /\ mobj[r].local_communicators[k] = MGroup(k)
          ELSE mobj[r].carts[k] = NoCart

\* C13: once the sub-communicators exist, a failure of the construction of
\* a patch's topology on a rank aborts the pool: the step that meets the
\* failure sets the abort, after an abort no rank takes a step, a rank
\* whose patch fails issues no Create_cart and does not return, and a rank
\* that returned holds a fully built object.
C13_FailureAbortsPool ==
    /\ [](\A r \in MRanks :
             /\ OwnedPatchFails(r) => mpc[r] \notin {"in_cart", "done"}
             /\ mpc[r] = "done" => FullyBuilt(r))
    /\ [](aborted => ~ENABLED NextMulti)
    /\ [][\A r \in MRanks :
             (mpc[r] = "carts" /\ OwnedPatchFails(r) /\ MCartArguments(r))
                => aborted']_vars

\* an unsatisfiable factorisation on the second patch aborted the pool
\* while a rank of the first patch was in Create_cart
C13_Witness ==
    /\ aborted /\ ~MalformedArgs
    /\ \E r \in MRanks : mpc[r] = "carts" /\ mcoll[r] = 1 /\ OwnedPatchFails(r)
    /\ \E q \in MRanks : mpc[q] \in {"in_cart", "done"}

InRange(r, i) ==
    minp.rank_ranges[i][1] <= r /\ r <= minp.rank_ranges[i][2]

\* C14: the rank ranges are contiguous, disjoint and cover [0, size); a
\* rank owns at most one patch; on a rank that returned, carts[i] is a
\* topology and i is in owned_groups exactly when the rank lies in
\* rank_ranges[i], and carts[i], local_groups[i] and local_communicators[i]
\* are None otherwise.
C14_OwnershipByRange ==
    (\E r \in MRanks : mpc[r] = "done") =>
        /\ \A i \in Patches : minp.rank_ranges[i][1] <= minp.rank_ranges[i][2]
        /\ \A r \in MRanks : \E i \in Patches : InRange(r, i)
        /\ \A i \in Patches :
              /\ 0 <= minp.rank_ranges[i][1]
              /\ minp.rank_ranges[i][2] < minp.args.size
        /\ \A r \in MRanks :
              Cardinality({i \in Patches : InRange(r, i)}) <= 1
        /\ \A r \in MRanks : mpc[r] = "done" =>
              /\ mobj[r].rank_ranges = minp.rank_ranges
              /\ \A i \in Patches :
                    IF InRange(r, i)
                    THEN /\ mobj[r].carts[i] # NoCart
                         /\ i \in mobj[r].owned_groups
                         /\ mobj[r].local_groups[i] =
                               minp.rank_ranges[i][1] .. minp.rank_ranges[i][2]
                         /\ mobj[r].local_communicators[i] # NoGroup
                    ELSE /\ mobj[r].carts[i] = NoCart
                         /\ i \notin mobj[r].owned_groups
                         /\ mobj[r].local_groups[i] = NoGroup
                         /\ mobj[r].local_communicators[i] = NoGroup

\* all three ranks returned, two of them owning the same patch
C14_Witness ==
    /\ minp.args.size = 3
    /\ \A r \in MRanks : mpc[r] = "done"
    /\ \E i \in Patches : minp.rank_ranges[i][2] > minp.rank_ranges[i][1]
    /\ \E r \in MRanks : \E i \in Patches :
          ~InRange(r, i) /\ mobj[r].carts[i] = NoCart

\* ======================================================================
\* CartDecomposition.reduce_elements and CartDecomposition.reduce_grid
\* ======================================================================

\* the comm argument of the constructor: a communicator, or None, the
\* default of line 656
NoComm == "None"

\* line 665: assert isinstance( comm, MPI.Comm )
CommValid(comm) == comm # NoComm

\* line 1004: CartDecomposition(self._npts, self._pads, self._periods,
\* self._reorder, shifts=self.shifts, reverse_axis=self.reverse_axis):
\* no comm is passed
ReduceElementsComm(c) == NoComm

\* line 1103: CartDecomposition(self.npts, ..., comm=self.comm)
ReduceGridComm(c) == "self.comm"

\* line 1013
ReducedShifts(shifts) ==
    [a \in DOMAIN shifts |-> IF shifts[a] - 1 > 1 THEN shifts[a] - 1 ELSE 1]

\* line 1018: tuple(n - ne for n,ne in zip(cart.npts, n_elements)); zip
\* stops at the shorter list, and pairs by position, not by axis
ZipNpts(npts, n_elements) ==
    [a \in (DOMAIN npts) \cap (DOMAIN n_elements) |-> npts[a] - n_elements[a]]

\* lines 1075-1081: the copy of self's reduced ends, the end of the last
\* interval set to n-1 on a non-periodic axis
AdjustedReducedEnds(ends, periodic, n) ==
    IF periodic THEN ends
    ELSE [c \in DOMAIN ends |-> IF c = NDim(ends) - 1 THEN n - 1 ELSE ends[c]]

\* lines 1006-1085: the rest of reduce_elements, `fresh` being the object
\* the constructor call returned: [err, cart]
ReduceElementsBody(c, fresh, axes, n_elements) ==
    LET ax  == DOMAIN c.npts
        sh  == ReducedShifts(c.shifts)
        np  == ZipNpts(fresh.npts, n_elements)
    IN  IF \E k \in DOMAIN axes : axes[k] >= NDim(c.npts)
        THEN [err |-> "AssertionError", cart |-> NoCart]
        ELSE IF \E a \in ax : a \notin DOMAIN np
        THEN [err |-> "IndexError", cart |-> NoCart]
        ELSE
        LET gs == [a \in ax |-> GlobalStarts(fresh.reduced_global_starts[a],
                                             fresh.reduced_global_ends[a],
                                             sh[a], c.dims[a])]
            ge == [a \in ax |-> GlobalEnds(gs[a], c.dims[a], np[a])]
            st == [a \in ax |-> gs[a][c.coords[a]]]
            en == [a \in ax |-> ge[a][c.coords[a]]]
            base == [fresh EXCEPT
                       !.dims = c.dims, !.coords = c.coords, !.shifts = sh,
                       !.npts = np, !.global_starts = gs, !.global_ends = ge,
                       !.starts = st, !.ends = en,
                       !.shape = [a \in ax |->
                                    en[a] - st[a] + 1 + 2 * sh[a] * c.pads[a]]]
        IN  [err  |-> "",
             cart |-> [base EXCEPT
                !.shift_info = AllShiftInfo(base),
                !.reduced_global_starts = c.reduced_global_starts,
                !.reduced_global_ends = [a \in ax |->
                    AdjustedReducedEnds(c.reduced_global_ends[a],
                                        c.periods[a], np[a])],
                !.parent_starts = c.starts,
                !.parent_ends = c.ends]]

\* mutant: the ghost width of the original, shifts*pads, is kept
ReduceGridBodyShiftPad(c, fresh, global_starts, global_ends) ==
    LET ax == DOMAIN c.npts
        st == [a \in ax |-> global_starts[a][c.coords[a]]]
        en == [a \in ax |-> global_ends[a][c.coords[a]]]
        base == [fresh EXCEPT
                   !.npts = [a \in ax |->
                               global_ends[a][NDim(global_ends[a]) - 1] + 1],
                   !.dims = c.dims, !.rank_in_topo = c.rank_in_topo,
                   !.coords = c.coords, !.starts = st, !.ends = en,
                   !.shifts = c.shifts,
                   !.shape = [a \in ax |->
                       en[a] - st[a] + 1 + 2 * c.shifts[a] * fresh.pads[a]]]
    IN  [err  |-> "",
         cart |-> [base EXCEPT
                     !.shift_info = AllShiftInfo(base),
                     !.global_starts = global_starts,
                     !.global_ends = global_ends]]

\* lines 1105-1146: the rest of reduce_grid, `fresh` being the object the
\* constructor call returned
ReduceGridBody(c, fresh, global_starts, global_ends) ==
    LET ax == DOMAIN c.npts
        st == [a \in ax |-> global_starts[a][c.coords[a]]]
        en == [a \in ax |-> global_ends[a][c.coords[a]]]
        base == [fresh EXCEPT
                   !.npts = [a \in ax |->
                               global_ends[a][NDim(global_ends[a]) - 1] + 1],
                   !.dims = c.dims, !.rank_in_topo = c.rank_in_topo,
                   !.coords = c.coords, !.starts = st, !.ends = en,
                   !.shape = [a \in ax |-> en[a] - st[a] + 1 + 2 * fresh.pads[a]]]
    IN  [err  |-> "",
         cart |-> [base EXCEPT
                     !.shift_info = AllShiftInfo(base),
                     !.global_starts = global_starts,
                     !.global_ends = global_ends]]

\* ------------------------------------------------------------ scenarios
\* the compositions of n into d positive parts, as the global_starts of a
\* grid of n points on d processes
RECURSIVE StartTables(_, _)
StartTables(n, d) ==
    IF d = 1 THEN {[c \in 0..0 |-> 0]}
    ELSE UNION {{[c \in 0..(d - 1) |-> IF c < d - 1 THEN t[c] ELSE k] :
                    t \in StartTables(k, d - 1)} : k \in (d - 1)..(n - 1)}

\* the global_ends that go with the global_starts gs of a grid of n points
EndsOfStarts(gs, n) ==
    [c \in DOMAIN gs |-> IF c < NDim(gs) - 1 THEN gs[c + 1] - 1 ELSE n - 1]

\* the topologies the methods are called on: valid arguments, one or two
\* axes, with the process grid the constructor used
ReduceTopologies ==
    {i \in Inputs1D :
        ArgsValid(i) /\ ~i.nprocs_given /\ i.nprocs[0] = 1 /\ i.npts[0] >= 2}
    \cup
    {i \in Inputs2D : ArgsValid(i) /\ i.pads[0] = i.pads[1]
                      /\ i.reverse_axis = NoAxis}

\* the calls: reduce_elements(axes, n_elements) and
\* reduce_grid(global_starts, global_ends) with tables of a grid that is
\* one point shorter along every axis
ReduceCalls(i, dims) ==
    {[method |-> "reduce_elements", axes |-> ax, n_elements |-> ne,
      global_starts |-> << >>, global_ends |-> << >>] :
        ax \in {Vec(<<0>>)} \cup
               (IF NDim(i.npts) = 2 THEN {Vec(<<0, 1>>), Vec(<<1>>)} ELSE {}),
        ne \in {Vec(<<1>>), Vec(<<2>>), Vec(<<1, 1>>)}}
    \cup
    {[method |-> "reduce_grid", axes |-> << >>, n_elements |-> << >>,
      global_starts |-> gs,
      global_ends |-> [a \in DOMAIN gs |-> EndsOfStarts(gs[a], i.npts[a] - 1)]] :
        gs \in {g \in [DOMAIN i.npts ->
                         UNION {StartTables(n, d) : n \in 1..MaxNpts, d \in 1..MaxSize}] :
                   \A a \in DOMAIN i.npts :
                       g[a] \in StartTables(i.npts[a] - 1, dims[a])}}

RRanks == DOMAIN rpc

InitReduce ==
    /\ \E i \in ReduceTopologies :
       \E d \in ValidDims(i.size, ReducedNptsOf(i), i.pads) :
       \E c \in ReduceCalls(i, d) :
       \E d2 \in ComputeDimsResults(i.size, i.npts, i.pads) :
          rcall = [args |-> i, dims |-> d, call |-> c, computed |-> d2]
    /\ this = [r \in 0..(rcall.args.size - 1) |->
                 BuildCart(rcall.args.npts, rcall.args.pads, PeriodsOf(rcall.args),
                           rcall.args.shifts, rcall.dims,
                           rcall.args.reverse_axis, r)]
    /\ rpc    = [r \in 0..(rcall.args.size - 1) |-> "ready"]
    /\ result = [r \in 0..(rcall.args.size - 1) |-> NoCart]
    /\ rerr   = [r \in 0..(rcall.args.size - 1) |-> ""]
    /\ IdleCart /\ IdleHalo /\ IdleIctor /\ IdleXchg /\ IdleMulti /\ IdleArrays

\* the communicator the method hands to the constructor
CommPassed(r) ==
    IF rcall.call.method = "reduce_elements"
    THEN ReduceElementsComm(this[r]) ELSE ReduceGridComm(this[r])

\* lines 1004 / 1103 with 660-706: the method calls the constructor, which
\* checks its arguments, asks compute_dims for a process grid and calls
\* Create_cart
RConstructorCall(r) ==
    /\ rpc[r] = "ready"
    /\ IF ~CommValid(CommPassed(r))
       THEN /\ rpc'  = [rpc EXCEPT ![r] = "raised"]
            /\ rerr' = [rerr EXCEPT ![r] = "AssertionError"]
       ELSE IF rcall.computed = NoDims
       THEN /\ rpc'  = [rpc EXCEPT ![r] = "raised"]
            /\ rerr' = [rerr EXCEPT ![r] = "ValueError"]
       ELSE /\ rpc'  = [rpc EXCEPT ![r] = "in_ctor"]
            /\ UNCHANGED rerr
    /\ UNCHANGED <<rcall, this, result>>
    /\ UNCHANGED nonReduceVars

\* the constructor returns once every rank of the communicator called it;
\* the method then overwrites the fields of the new object and returns it
RMethodReturn(r) ==
    /\ rpc[r] = "in_ctor"
    /\ \A q \in RRanks : rpc[q] \in {"in_ctor", "returned", "failed"}
    /\ LET c == this[r]
           fresh == BuildCart(c.npts, c.pads, c.periods,
                       IF rcall.call.method = "reduce_elements"
                       THEN c.shifts ELSE [a \in DOMAIN c.npts |-> 1],
                       rcall.computed,
                       IF rcall.call.method = "reduce_elements"
                       THEN c.reverse_axis ELSE NoAxis,
                       r)
           out == IF rcall.call.method = "reduce_elements"
                  THEN ReduceElementsBody(c, fresh, rcall.call.axes,
                                          rcall.call.n_elements)
                  ELSE ReduceGridBody(c, fresh, rcall.call.global_starts,
                                      rcall.call.global_ends)
       IN  /\ result' = [result EXCEPT ![r] = out.cart]
           /\ rerr'   = [rerr EXCEPT ![r] = out.err]
           /\ rpc'    = [rpc EXCEPT ![r] =
                            IF out.err = "" THEN "returned" ELSE "failed"]
    /\ UNCHANGED <<rcall, this>>
    /\ UNCHANGED nonReduceVars

NextReduce ==
    \/ \E r \in RRanks : RConstructorCall(r)
    \/ \E r \in RRanks : RMethodReturn(r)

SpecReduce == InitReduce /\ [][NextReduce]_vars

\* ----------------------------------------------------------------------
\* Claims on reduce_elements and reduce_grid
\* ----------------------------------------------------------------------

\* the rank's call is over: it returned or raised
CallOver(r) == rpc[r] \in {"returned", "raised", "failed"}

\* the topology as the constructor built it, before the call
Original(r) ==
    BuildCart(rcall.args.npts, rcall.args.pads, PeriodsOf(rcall.args),
              rcall.args.shifts, rcall.dims, rcall.args.reverse_axis, r)

\* the number of elements to take off axis a
RECURSIVE ElementsOffUpTo(_, _)
ElementsOffUpTo(a, k) ==
    IF k < 0 THEN 0
    ELSE ElementsOffUpTo(a, k - 1) +
         (IF rcall.call.axes[k] = a THEN rcall.call.n_elements[k] ELSE 0)

ExpectedNpts ==
    [a \in DOMAIN rcall.args.npts |->
        rcall.args.npts[a] - ElementsOffUpTo(a, NDim(rcall.call.axes) - 1)]

\* the tables gs, ge of d blocks tile [0, n)
Tiles(gs, ge, d, n) ==
    /\ DOMAIN gs = 0..(d - 1) /\ DOMAIN ge = 0..(d - 1)
    /\ gs[0] = 0 /\ ge[d - 1] = n - 1
    /\ \A c \in 0..(d - 2) : gs[c + 1] = ge[c] + 1
    /\ \A c \in 0..(d - 1) : gs[c] <= ge[c] + 1

\* a call of reduce_elements with one count per axis that leaves at least
\* one point per process on every axis
ReduceElementsCase ==
    /\ rcall.call.method = "reduce_elements"
    /\ NDim(rcall.call.axes) = NDim(rcall.call.n_elements)
    /\ \A a \in DOMAIN rcall.args.npts : ExpectedNpts[a] >= rcall.dims[a]

\* C16: reduce_elements(axes, n_elements) returns a new topology whose
\* npts is reduced by n_elements along the given axes and unchanged on the
\* others, whose multiplicity is reduced by one but not below 1, and whose
\* start/end tables cover [0, new npts[axis]) exactly on each axis.
C16_ReduceElements ==
    ReduceElementsCase =>
        \A r \in RRanks : CallOver(r) =>
            /\ rpc[r] = "returned"
            /\ result[r] # NoCart
            /\ result[r].npts = ExpectedNpts
            /\ result[r].shifts = ReducedShifts(rcall.args.shifts)
            /\ \A a \in DOMAIN rcall.args.npts :
                  Tiles(result[r].global_starts[a], result[r].global_ends[a],
                        rcall.dims[a], ExpectedNpts[a])

\* C17: reduce_elements and reduce_grid produce a new instance and leave
\* the topology they are called on as it was: all its fields have their
\* values of before the call.
C17_NewInstanceOriginalKept ==
    (rcall # << >> /\ (rcall.call.method = "reduce_grid" \/ ReduceElementsCase)) =>
        \A r \in RRanks : CallOver(r) =>
            /\ rpc[r] = "returned"
            /\ result[r] # NoCart
            /\ this[r] = Original(r)

\* the part of C17 on the original alone: whatever the outcome of the call
OriginalKept ==
    rcall # << >> => \A r \in RRanks : this[r] = Original(r)

\* C18: reduce_grid(global_starts, global_ends) returns a topology whose
\* npts[axis] is global_ends[axis][-1] + 1, whose starts and ends are the
\* entries of the supplied tables at the process's coordinates, whose local
\* shape is end - start + 1 + 2*pad on every axis, and whose shift-info
\* buffers are pad wide along the exchanged axis.
C18_ReduceGrid ==
    (rcall # << >> /\ rcall.call.method = "reduce_grid") =>
        \A r \in RRanks : CallOver(r) =>
            /\ rpc[r] = "returned"
            /\ \A a \in DOMAIN rcall.args.npts :
                  LET ge == rcall.call.global_ends[a]
                      gs == rcall.call.global_starts[a]
                      co == Original(r).coords[a]
                      p  == rcall.args.pads[a]
                  IN  /\ result[r].npts[a] = ge[NDim(ge) - 1] + 1
                      /\ result[r].starts[a] = gs[co]
                      /\ result[r].ends[a] = ge[co]
                      /\ result[r].shape[a] = ge[co] - gs[co] + 1 + 2 * p
                      /\ \A disp \in {0 - 1, 1} :
                            LET info == result[r].shift_info[<<a, disp>>]
                            IN  /\ info.buf_shape[a] = p
                                /\ \A b \in DOMAIN rcall.args.npts : b # a =>
                                      info.buf_shape[b] = result[r].shape[b]
                                /\ info.send_starts[a] =
                                      IF disp > 0 THEN ge[co] - gs[co] + 1 ELSE p
                                /\ info.recv_starts[a] =
                                      IF disp > 0 THEN 0 ELSE ge[co] - gs[co] + 1 + p

\* reduce_grid returned on both ranks of a grid of multiplicity 2 with a
\* pad
C18_Witness ==
    /\ rcall # << >> /\ rcall.call.method = "reduce_grid"
    /\ rcall.args.size = 2 /\ rcall.args.shifts[0] = 2 /\ rcall.args.pads[0] >= 1
    /\ \A r \in RRanks : rpc[r] = "returned" /\ result[r] # NoCart

\* the new topology has the process grid, the coordinates and the
\* neighbours of the topology reduce_grid was called on
SameTopology(new, old) ==
    /\ new.dims = old.dims
    /\ new.coords = old.coords
    /\ \A k \in DOMAIN old.shift_info :
          /\ new.shift_info[k].rank_source = old.shift_info[k].rank_source
          /\ new.shift_info[k].rank_dest = old.shift_info[k].rank_dest

\* C38: the topology returned by reduce_grid has the same nprocs, the same
\* process coordinates and, for every axis and disp, the same rank_source
\* and rank_dest as the topology it was derived from, also when the
\* original was built with reverse_axis or with shifts > 1
C38_ReduceGridKeepsNeighbours ==
    (rcall # << >> /\ rcall.call.method = "reduce_grid") =>
        \A r \in RRanks : rpc[r] = "returned" => SameTopology(result[r], this[r])

\* the part of C38 the code keeps: without reverse_axis the grid, the
\* coordinates and the neighbours are those of the original, whatever the
\* shifts; with reverse_axis the grid and the coordinates still are
ReduceGridKeepsUnreversed ==
    (rcall # << >> /\ rcall.call.method = "reduce_grid") =>
        \A r \in RRanks : rpc[r] = "returned" =>
            /\ result[r].dims = this[r].dims
            /\ result[r].coords = this[r].coords
            /\ (rcall.args.reverse_axis = NoAxis
                   => SameTopology(result[r], this[r]))

\* ======================================================================
\* psydac.core.arrays: matmul, sum_vec, min_vec, max_vec
\* ======================================================================
\* A numpy array is a named object of the memory: its shape and its
\* entries by index tuple. Floats are modelled by integers (exact
\* arithmetic): rounding and NaN are outside the model.
MaxDim == 2     \* largest number of rows or columns of a matrix
MaxLen == 3     \* largest length of a vector

MatrixEntries == {0 - 1, 2}
VectorEntries == {0 - 1, 0, 2}

Matrices(n, m) ==
    {[shape |-> Vec(<<n, m>>), data |-> e] :
        e \in [(0..(n - 1)) \X (0..(m - 1)) -> MatrixEntries]}

\* what the output array may hold before the call
Outputs(n, m) ==
    {[shape |-> Vec(<<n, m>>),
      data  |-> [ij \in (0..(n - 1)) \X (0..(m - 1)) |-> v]] : v \in {0, 7}}

Vectors ==
    UNION {{[shape |-> Vec(<<n>>), data |-> e] :
              e \in [0..(n - 1) -> VectorEntries]} : n \in 0..MaxLen}

\* matmul( a, b, c ) on three different arrays of conforming shapes
MatmulCalls ==
    UNION {
      {[fn |-> "matmul", args |-> <<"x", "y", "z">>,
        before |-> [nm \in {"x", "y", "z"} |->
                      IF nm = "x" THEN x ELSE IF nm = "y" THEN y ELSE z]] :
          x \in Matrices(d[1], d[2]), y \in Matrices(d[2], d[3]),
          z \in Outputs(d[1], d[3])} :
      d \in (0..MaxDim) \X (0..MaxDim) \X (0..MaxDim)}

\* matmul( a, b, a ), matmul( a, b, b ) and matmul( a, a, c ): the same
\* array passed twice (square matrices)
MatmulAliasedCalls ==
    UNION {
      {[fn |-> "matmul", args |-> al,
        before |-> [nm \in {"x", "y", "z"} |->
                      IF nm = "x" THEN x ELSE IF nm = "y" THEN y ELSE z]] :
          x \in Matrices(n, n), y \in Matrices(n, n), z \in Outputs(n, n),
          al \in {<<"x", "y", "x">>, <<"x", "y", "y">>, <<"x", "x", "z">>}} :
      n \in 1..MaxDim}

VectorCalls ==
    {[fn |-> f, args |-> <<"v">>, before |-> [nm \in {"v"} |-> v]] :
        f \in {"sum_vec", "min_vec", "max_vec"}, v \in Vectors}

ArrayCalls == MatmulCalls \cup MatmulAliasedCalls \cup VectorCalls

\* line 21: c[:, :] = 0.
Zeroed(x) == [x EXCEPT !.data = [ij \in DOMAIN x.data |-> 0]]

\* line 29: c[i, j] += a[i, k] * b[k, j], in the memory h
Accumulate(h, a, b, c, i, j, k) ==
    [h EXCEPT ![c].data[<<i, j>>] =
        @ + h[a].data[<<i, k>>] * h[b].data[<<k, j>>]]

\* mutant: c is not zeroed before the loops
RECURSIVE MatmulNoZeroUpTo(_, _, _, _, _)
MatmulNoZeroUpTo(h, a, b, c, t) ==
    IF t = 0 THEN h
    ELSE LET ii == Unravel(t - 1, Vec(<<h[a].shape[0], h[b].shape[1],
                                        h[a].shape[1]>>))
         IN  Accumulate(MatmulNoZeroUpTo(h, a, b, c, t - 1), a, b, c,
                        ii[0], ii[1], ii[2])

MatmulNoZero(h, a, b, c) ==
    MatmulNoZeroUpTo(h, a, b, c, h[a].shape[0] * h[b].shape[1] * h[a].shape[1])

\* lines 21-29: the memory after the first t passes of the innermost loop
\* body, the loops running over i < sh_a[0], j < sh_b[1], k < sh_a[1]
RECURSIVE MatmulUpTo(_, _, _, _, _)
MatmulUpTo(h, a, b, c, t) ==
    IF t = 0 THEN [h EXCEPT ![c] = Zeroed(h[c])]
    ELSE LET ii == Unravel(t - 1, Vec(<<h[a].shape[0], h[b].shape[1],
                                        h[a].shape[1]>>))
         IN  Accumulate(MatmulUpTo(h, a, b, c, t - 1), a, b, c,
                        ii[0], ii[1], ii[2])

\* lines 5-29: the memory when matmul returns
Matmul(h, a, b, c) ==
    MatmulUpTo(h, a, b, c, h[a].shape[0] * h[b].shape[1] * h[a].shape[1])

\* lines 43-50
RECURSIVE SumVecUpTo(_, _)
SumVecUpTo(a, n) ==
    IF n = 0 THEN 0 ELSE SumVecUpTo(a, n - 1) + a.data[n - 1]

SumVec(a) == SumVecUpTo(a, a.shape[0])

\* lines 64-72; a[0] of an empty vector raises IndexError
RECURSIVE MinVecUpTo(_, _)
MinVecUpTo(a, n) ==
    IF n = 0 THEN a.data[0]
    ELSE LET out == MinVecUpTo(a, n - 1)
         IN  IF a.data[n - 1] < out THEN a.data[n - 1] ELSE out

MinVec(a) == IF a.shape[0] = 0 THEN "IndexError" ELSE MinVecUpTo(a, a.shape[0])

\* lines 86-94
RECURSIVE MaxVecUpTo(_, _)
MaxVecUpTo(a, n) ==
    IF n = 0 THEN a.data[0]
    ELSE LET out == MaxVecUpTo(a, n - 1)
         IN  IF a.data[n - 1] > out THEN a.data[n - 1] ELSE out

MaxVec(a) == IF a.shape[0] = 0 THEN "IndexError" ELSE MaxVecUpTo(a, a.shape[0])

InitArrays ==
    /\ acall \in ArrayCalls
    /\ mem = acall.before
    /\ apc = "call"
    /\ aret = "None"
    /\ IdleCart /\ IdleHalo /\ IdleIctor /\ IdleXchg /\ IdleMulti /\ IdleReduce

CallMatmul ==
    /\ apc = "call" /\ acall.fn = "matmul"
    /\ mem' = Matmul(mem, acall.args[1], acall.args[2], acall.args[3])
    /\ apc' = "returned"
    /\ UNCHANGED <<acall, aret>>
    /\ UNCHANGED nonArraysVars

CallSumVec ==
    /\ apc = "call" /\ acall.fn = "sum_vec"
    /\ aret' = SumVec(mem[acall.args[1]])
    /\ apc' = "returned"
    /\ UNCHANGED <<acall, mem>>
    /\ UNCHANGED nonArraysVars

CallMinVec ==
    /\ apc = "call" /\ acall.fn = "min_vec"
    /\ aret' = MinVec(mem[acall.args[1]])
    /\ apc' = "returned"
    /\ UNCHANGED <<acall, mem>>
    /\ UNCHANGED nonArraysVars

CallMaxVec ==
    /\ apc = "call" /\ acall.fn = "max_vec"
    /\ aret' = MaxVec(mem[acall.args[1]])
    /\ apc' = "returned"
    /\ UNCHANGED <<acall, mem>>
    /\ UNCHANGED nonArraysVars

NextArrays ==
    \/ CallMatmul
    \/ CallSumVec
    \/ CallMinVec
    \/ CallMaxVec

SpecArrays == InitArrays /\ [][NextArrays]_vars

\* ---------------------------------------------------------------------
\* the mathematical results, defined without the loops of the code
RECURSIVE DotFrom(_, _, _, _, _)
DotFrom(a, b, i, j, k) ==
    IF k >= a.shape[1] THEN 0
    ELSE a.data[<<i, k>>] * b.data[<<k, j>>] + DotFrom(a, b, i, j, k + 1)

MatrixProduct(a, b) ==
    [ij \in (0..(a.shape[0] - 1)) \X (0..(b.shape[1] - 1)) |->
        DotFrom(a, b, ij[1], ij[2], 0)]

RECURSIVE SumFrom(_, _)
SumFrom(a, i) == IF i >= a.shape[0] THEN 0 ELSE a.data[i] + SumFrom(a, i + 1)

Values(a) == {a.data[i] : i \in DOMAIN a.data}
Minimum(a) == CHOOSE v \in Values(a) : \A u \in Values(a) : v <= u
Maximum(a) == CHOOSE v \in Values(a) : \A u \in Values(a) : v >= u

MatmulContract ==
    /\ mem[acall.args[3]].data =
           MatrixProduct(acall.before[acall.args[1]], acall.before[acall.args[2]])
    /\ mem[acall.args[1]] = acall.before[acall.args[1]]
    /\ mem[acall.args[2]] = acall.before[acall.args[2]]

VectorContract ==
    /\ (acall.fn = "sum_vec") => (aret = SumFrom(acall.before["v"], 0))
    /\ (acall.fn = "min_vec") => (aret = Minimum(acall.before["v"]))
    /\ (acall.fn = "max_vec") => (aret = Maximum(acall.before["v"]))

\* C29 as stated: after matmul(a, b, c) the array c holds the product a*b
\* for all conforming shapes and any former content of c, and a and b are
\* unchanged; sum_vec, min_vec and max_vec return the sum, the minimum and
\* the maximum of a non-empty vector.
C29_AsStated ==
    (apc = "returned") =>
        /\ (acall.fn = "matmul") => MatmulContract
        /\ (acall.fn # "matmul" /\ acall.before["v"].shape[0] > 0)
              => VectorContract

\* C29 amended: the contract of matmul holds when c is an array other than
\* a and b; the vector functions are as stated.
C29_MatmulOnDistinctOutput ==
    (apc = "returned") =>
        /\ (acall.fn = "matmul"
              /\ acall.args[3] \notin {acall.args[1], acall.args[2]})
              => MatmulContract
        /\ (acall.fn # "matmul" /\ acall.before["v"].shape[0] > 0)
              => VectorContract

\* a 2 x 2 product written over a c that was not zero
C29_Witness ==
    /\ apc = "returned" /\ acall.fn = "matmul"
    /\ acall.args = <<"x", "y", "z">>
    /\ acall.before["x"].shape = Vec(<<2, 2>>)
    /\ acall.before["y"].shape = Vec(<<2, 2>>)
    /\ acall.before["z"].data[<<0, 0>>] = 7
    /\ mem["z"].data[<<0, 1>>] = 0 - 4
    /\ MatmulContract

============================================================================
